---- MODULE Spec2Model ----
(***************************************************************************)
(* Model of the draw.io layout engine, src/src/drawio/xml-builder.ts       *)
(* (class DrawIOBuilder), and of four parts of the web client: the prompt  *)
(* history service and the components DiagramViewer, GeneratePanel and     *)
(* ConfigPanel.                                                            *)
(*                                                                         *)
(* Strings that the code inspects character by character (node names and   *)
(* cell identifiers) are sequences of one-character strings; resource      *)
(* types and connection styles, which the code only compares and uses as   *)
(* table keys, are plain strings.  Coordinates are integers; a centre,     *)
(* which the code computes as x + width / 2, is kept doubled (2x + width)  *)
(* so that halves stay exact.                                              *)
(***************************************************************************)
EXTENDS Integers, Sequences, FiniteSets, TLC

VARIABLES
    cellMap,               \* DrawIOBuilder.cellMap: insertion-ordered name -> CellInfo
    idCounter,             \* DrawIOBuilder.idCounter
    usedResourceTypes,     \* DrawIOBuilder.usedResourceTypes
    usedConnectionStyles,  \* DrawIOBuilder.usedConnectionStyles
    containerAbsBounds,    \* DrawIOBuilder.containerAbsBounds: insertion-ordered id -> bounds
    counter,               \* the module-level counter of utils/id-generator
    clock,                 \* the wall clock new Date() reads
    phase,                 \* where the caller is: "idle", "generating", "hung", ...
    calls,                 \* generate calls started so far
    request,               \* the argument of the generate call in progress
    pending,               \* the pages generate has still to render
    doc,                   \* the document generate is building
    returned,              \* the last generate call's argument and result
    lookup,                \* the last findCell call: [name, result]
    sized,                 \* a container whose size is estimated as it gains children
    storage,               \* localStorage's item az-arch-gen-history: none, or the array
    saves,                 \* saveToHistory calls of this session
    result,                \* DiagramViewer's prop: 0 for null, else the number of its XML
    isLoaded,              \* DiagramViewer state isLoaded
    showXml,               \* DiagramViewer state showXml
    exporting,             \* DiagramViewer state exporting: "none", "png" or "svg"
    iframeReady,           \* DiagramViewer ref iframeReady
    pendingXml,            \* DiagramViewer ref pendingXml: 0 for null
    frame,                 \* the iframe element and the document in it
    toFrame,               \* messages posted to the iframe's window, not yet handled
    toParent,              \* messages the iframes posted to the page, not yet handled
    prompt,                \* GeneratePanel state prompt
    isGenerating,          \* GeneratePanel state isGenerating
    generationStatus,      \* GeneratePanel state generationStatus
    conversation,          \* GeneratePanel state conversation: the number of its entries
    abortRef,              \* GeneratePanel ref abortRef: 0 for null, else the controller's number
    attempts,              \* the calls of handleGenerate, finished or not
    lastError,             \* the text onError was last called with
    selectedSub,           \* ConfigPanel state selectedSub
    resourceList,          \* ConfigPanel state resources: the names
    selectedResource,      \* ConfigPanel state selectedResource
    deployments,           \* ConfigPanel state deployments: the names
    selectedDeployment,    \* ConfigPanel state selectedDeployment
    loading,               \* ConfigPanel state loading
    error,                 \* ConfigPanel state error
    pendingResources,      \* listOpenAIResources calls without a response, by subscription
    pendingDeployments,    \* listDeployments calls without a response, by resource
    config,                \* the parent's config: "" for null, else the deployment's name
    subscriptionList       \* ConfigPanel state subscriptions: the ids

vars == <<cellMap, idCounter, usedResourceTypes, usedConnectionStyles,
          containerAbsBounds, counter, clock, phase, calls, request, pending, doc,
          returned, lookup, sized, storage, saves, result, isLoaded, showXml,
          exporting, iframeReady, pendingXml, frame, toFrame, toParent, prompt,
          isGenerating, generationStatus, conversation, abortRef, attempts, lastError,
          selectedSub, resourceList, selectedResource, deployments, selectedDeployment,
          loading, error, pendingResources, pendingDeployments, config,
          subscriptionList>>

\* the state of the web client, which the builder does not touch
historyVars == <<storage, saves>>

viewerVars ==
    <<result, isLoaded, showXml, exporting, iframeReady, pendingXml, frame, toFrame,
      toParent>>

panelVars ==
    <<prompt, isGenerating, generationStatus, conversation, abortRef, attempts,
      lastError>>

configVars ==
    <<selectedSub, resourceList, selectedResource, deployments, selectedDeployment,
      loading, error, pendingResources, pendingDeployments, config, subscriptionList>>

formVars == <<panelVars, configVars>>

webVars == <<historyVars, viewerVars, formVars>>

\* the state of the builder and of its callers, which the web client does not touch
engineVars ==
    <<cellMap, idCounter, usedResourceTypes, usedConnectionStyles, containerAbsBounds,
      counter, clock, phase, calls, request, pending, doc, returned, lookup, sized>>

(***************************************************************************)
(* Strings                                                                 *)
(***************************************************************************)

\* bounds of the model
MaxCalls == 2
MaxClock == 1
MaxPages == 2
MaxChildren == 2
MaxConnections == 3
MaxEntries == 3
MaxGrowth == 5
MaxSaves == 3
MaxResults == 2
MaxInFlight == 2
MaxAttempts == 2
MaxEvents == 2
MaxPending == 2

Max(a, b) == IF a >= b THEN a ELSE b
Min(a, b) == IF a <= b THEN a ELSE b

\* String.prototype.toLowerCase on one character
LowerChar(c) ==
    LET upper == <<"A","B","C","D","E","F","G","H","I","J","K","L","M",
                   "N","O","P","Q","R","S","T","U","V","W","X","Y","Z">>
        lower == <<"a","b","c","d","e","f","g","h","i","j","k","l","m",
                   "n","o","p","q","r","s","t","u","v","w","x","y","z">>
    IN  IF \E i \in 1..26 : upper[i] = c
        THEN lower[CHOOSE i \in 1..26 : upper[i] = c]
        ELSE c

toLowerCase(s) == [i \in 1..Len(s) |-> LowerChar(s[i])]

\* String.prototype.includes: needle occurs in hay as a contiguous substring
includes(hay, needle) ==
    \E i \in 0..(Len(hay) - Len(needle)) :
        \A j \in 1..Len(needle) : hay[i + j] = needle[j]

DigitChar(d) ==
    CASE d = 0 -> "0" [] d = 1 -> "1" [] d = 2 -> "2" [] d = 3 -> "3" [] d = 4 -> "4"
      [] d = 5 -> "5" [] d = 6 -> "6" [] d = 7 -> "7" [] d = 8 -> "8" [] OTHER -> "9"

RECURSIVE NumChars(_)
\* String(n) for a natural number
NumChars(n) == IF n < 10 THEN <<DigitChar(n)>>
               ELSE Append(NumChars(n \div 10), DigitChar(n % 10))

(***************************************************************************)
(* Insertion-ordered maps (JavaScript Map): a sequence of [key, val]       *)
(***************************************************************************)

MapHas(m, k) == \E i \in 1..Len(m) : m[i].key = k

MapGet(m, k) == m[CHOOSE i \in 1..Len(m) : m[i].key = k].val

\* Map.prototype.set: a key already present keeps its place and takes the new value
MapSet(m, k, v) ==
    IF MapHas(m, k)
    THEN [i \in 1..Len(m) |-> IF m[i].key = k THEN [key |-> k, val |-> v] ELSE m[i]]
    ELSE Append(m, [key |-> k, val |-> v])

\* what findCell returns for undefined
NoCell == [id |-> <<>>, parentId |-> <<>>, position |-> [x |-> 0, y |-> 0]]

RECURSIVE FirstMatch(_, _, _, _)
\* for (const [key, val] of this.cellMap) if (tier(key)) return val
\* tier 2: equal ignoring case; tier 3: one contains the other, ignoring case
FirstMatch(m, lower, tier, i) ==
    IF i > Len(m) THEN NoCell
    ELSE LET k == toLowerCase(m[i].key)
             hit == IF tier = 2 THEN k = lower
                    ELSE includes(k, lower) \/ includes(lower, k)
         IN  IF hit THEN m[i].val ELSE FirstMatch(m, lower, tier, i + 1)

\* a plausible slip: the substring tier tried before the case-insensitive one
findCellSubstringFirst(m, name) ==
    IF MapHas(m, name) THEN MapGet(m, name)
    ELSE LET lower == toLowerCase(name)
             part == FirstMatch(m, lower, 3, 1)
         IN  IF part # NoCell THEN part ELSE FirstMatch(m, lower, 2, 1)

findCell(m, name) ==
    IF MapHas(m, name) THEN MapGet(m, name)
    ELSE LET lower == toLowerCase(name)
             ci == FirstMatch(m, lower, 2, 1)
         IN  IF ci # NoCell THEN ci ELSE FirstMatch(m, lower, 3, 1)

PageRoot == <<"1">>

\* nextId's result for counter value n: cell-${n}
CellId(n) == <<"c", "e", "l", "l", "-">> \o NumChars(n)

(***************************************************************************)
(* Size Estimator: the calculate functions.  Lists the code leaves        *)
(* undefined are                                                           *)
(* empty sequences here wherever the code treats the two alike; where it   *)
(* does not (vnet.subnets, page.resourceGroups) a flag says whether        *)
(* the property is present.                                                *)
(***************************************************************************)

RECURSIVE SeqSum(_)
SeqSum(s) == IF s = <<>> THEN 0 ELSE Head(s) + SeqSum(Tail(s))

RECURSIVE SeqMax(_)
\* Math.max over the elements, 0 for none (every use starts from a floor >= 0)
SeqMax(s) == IF s = <<>> THEN 0 ELSE Max(Head(s), SeqMax(Tail(s)))

\* Math.ceil(n / d) for n >= 0
CeilDiv(n, d) == (n + d - 1) \div d

isVNet(r) == r.type = "vnet" \/ r.type = "hubVnet"

SelectVNets(rs) == SelectSeq(rs, isVNet)

isOther(r) == ~isVNet(r)

SelectOthers(rs) == SelectSeq(rs, isOther)

\* buildSubnet: const azWidth = Math.max(150, azCols * 130 + 30)
azWidth(azGroup) == Max(150, Min(Len(azGroup.resources), 2) * 130 + 30)

\* buildSubnet: const azHeight = Math.max(110, azRows * 110 + 50)
azHeight(azGroup) == Max(110, CeilDiv(Len(azGroup.resources), 2) * 110 + 50)

calculateAZSectionHeight(subnet) ==
    SeqMax([i \in 1..Len(subnet.availabilityZones) |->
                azHeight(subnet.availabilityZones[i])])

calculateSubnetWidth(subnet) ==
    LET resourceCount == Len(subnet.resources)
        basicWidth == Max(150, Min(resourceCount, 2) * 130 + 30)
        azs == subnet.availabilityZones
        azTotalWidth == 15 + SeqSum([i \in 1..Len(azs) |->
                                        Max(150, Min(Len(azs[i].resources), 2) * 130 + 30) + 15])
    IN  IF Len(azs) > 0 THEN Max(basicWidth, azTotalWidth + 15) ELSE basicWidth

calculateSubnetHeight(subnet) ==
    LET resourceCount == Len(subnet.resources)
        rows == CeilDiv(Max(1, resourceCount), 2)
        azs == subnet.availabilityZones
        maxAZHeight == SeqMax([i \in 1..Len(azs) |->
                                  Max(110, CeilDiv(Len(azs[i].resources), 2) * 110 + 50)])
        nonAZRows == CeilDiv(resourceCount, 2)
        nonAZHeight == IF resourceCount > 0 THEN nonAZRows * 110 + 20 ELSE 0
    IN  IF Len(azs) > 0 THEN maxAZHeight + nonAZHeight + 60
        ELSE Max(100, rows * 110 + 50)

calculateVNetWidth(vnet) ==
    LET ws == [i \in 1..Len(vnet.subnets) |-> calculateSubnetWidth(vnet.subnets[i])]
    IN  IF vnet.type = "hubVnet" /\ vnet.hasSubnets
        THEN Max(400, 40 + SeqSum([i \in 1..Len(ws) |-> ws[i] + 20]))
        ELSE Max(300, SeqMax([i \in 1..Len(ws) |-> ws[i] + 40]))

calculateVNetHeight(vnet) ==
    LET hs == [i \in 1..Len(vnet.subnets) |-> calculateSubnetHeight(vnet.subnets[i])]
    IN  IF vnet.type = "hubVnet" /\ vnet.hasSubnets
        THEN Max(100, SeqMax(hs)) + 70
        ELSE Max(150, 60 + SeqSum([i \in 1..Len(hs) |-> hs[i] + 20]))

\* a plausible slip: the other resources' width taken from the last row of the
\* grid, not from its widest row
calculateRGWidthLastRow(rg) ==
    LET vnets == SelectVNets(rg.resources)
        otherCount == Len(SelectOthers(rg.resources))
        vnetWidth == SeqMax([i \in 1..Len(vnets) |-> calculateVNetWidth(vnets[i])])
        otherWidth == IF CeilDiv(otherCount, 4) > 0
                      THEN (((otherCount - 1) % 4) + 1) * 130 + 40 ELSE 0
    IN  Max(300, vnetWidth + otherWidth + 80)

calculateRGWidth(rg) ==
    LET vnets == SelectVNets(rg.resources)
        otherCount == Len(SelectOthers(rg.resources))
        vnetWidth == SeqMax([i \in 1..Len(vnets) |-> calculateVNetWidth(vnets[i])])
        otherWidth == IF CeilDiv(otherCount, 4) > 0
                      THEN Min(otherCount, 4) * 130 + 40 ELSE 0
    IN  Max(300, vnetWidth + otherWidth + 80)

calculateRGHeight(rg) ==
    LET vnets == SelectVNets(rg.resources)
        otherCount == Len(SelectOthers(rg.resources))
        vnetHeight == SeqSum([i \in 1..Len(vnets) |-> calculateVNetHeight(vnets[i]) + 30])
        otherHeight == CeilDiv(otherCount, 4) * 110 + 50
    IN  Max(200, Max(vnetHeight + 60, otherHeight + 40))

calculateRegionWidth(region) ==
    LET rgs == region.resourceGroups
    IN  Max(400, SeqMax([i \in 1..Len(rgs) |-> calculateRGWidth(rgs[i]) + 60]))

calculateRegionHeight(region) ==
    LET rgs == region.resourceGroups
    IN  Max(400, 80 + SeqSum([i \in 1..Len(rgs) |-> calculateRGHeight(rgs[i]) + 40]))

\* a plausible slip: the 400 floor left out, as calculateSubscriptionHeight has none
calculateSubscriptionWidthNoFloor(sub) ==
    IF Len(sub.regions) > 0
    THEN 100 + SeqSum([i \in 1..Len(sub.regions) |->
                          calculateRegionWidth(sub.regions[i]) + 60])
    ELSE 100 + SeqSum([i \in 1..Len(sub.resourceGroups) |->
                          calculateRGWidth(sub.resourceGroups[i]) + 40])

calculateSubscriptionWidth(sub) ==
    LET total == IF Len(sub.regions) > 0
                 THEN 100 + SeqSum([i \in 1..Len(sub.regions) |->
                                       calculateRegionWidth(sub.regions[i]) + 60])
                 ELSE 100 + SeqSum([i \in 1..Len(sub.resourceGroups) |->
                                       calculateRGWidth(sub.resourceGroups[i]) + 40])
    IN  Max(400, total)

calculateSubscriptionHeight(sub) ==
    IF Len(sub.regions) > 0
    THEN Max(200, SeqMax([i \in 1..Len(sub.regions) |->
                             calculateRegionHeight(sub.regions[i]) + 100]))
    ELSE Max(200, SeqMax([i \in 1..Len(sub.resourceGroups) |->
                             calculateRGHeight(sub.resourceGroups[i]) + 100]))

\* buildOnPremises: const width = 350
onPremWidth(onPrem) == 350

\* buildOnPremises: Math.max(200, (onPrem.resources?.length || 0) * 90 + 80)
onPremHeight(onPrem) == Max(200, Len(onPrem.resources) * 90 + 80)

(***************************************************************************)
(* Catalog and emitted cells                                               *)
(***************************************************************************)

\* RESOURCES (schema/resources.ts): type -> default width, height and the rank
\* of its display name in localeCompare order
RESOURCES ==
    [t \in {"storageAccount", "vm"} |->
        IF t = "vm" THEN [width |-> 69, height |-> 64, rank |-> 2]
                    ELSE [width |-> 65, height |-> 52, rank |-> 1]]

KnownType(t) == t \in DOMAIN RESOURCES

\* one emitted mxCell (with its mxGeometry and, for a resource, its object wrapper);
\* obstructing is not emitted: it keeps, for an edge, the ids of the containers
\* findObstructingContainers returned for it
Cell(id, parent, kind, x, y, w, h) ==
    [id |-> id, parent |-> parent, kind |-> kind, x |-> x, y |-> y,
     width |-> w, height |-> h, value |-> <<>>, type |-> "", style |-> "",
     source |-> <<>>, target |-> <<>>, routed |-> FALSE, points |-> <<>>,
     obstructing |-> <<>>, attributes |-> <<>>]

\* the fields of a new DrawIOBuilder, and nothing emitted; hung says that a call
\* did not return (an ancestor walk that loops for ever), after which the builder
\* takes no further step
NewBuilder ==
    [cellMap |-> <<>>, idCounter |-> 0, usedResourceTypes |-> {},
     usedConnectionStyles |-> {}, containerAbsBounds |-> <<>>,
     cells |-> <<>>, hung |-> FALSE]

Emit(b, cell) == [b EXCEPT !.cells = Append(@, cell)]

nextId(b) == CellId(b.idCounter + 1)

\* x.id || this.nextId(): the builder after the choice
TakeId(b, given) == IF given # <<>> THEN b ELSE [b EXCEPT !.idCounter = @ + 1]

\* x.id || this.nextId(): the identifier chosen
IdFor(b, given) == IF given # <<>> THEN given ELSE nextId(b)

\* this.containerAbsBounds.get(id)?.x ?? 0 and ?.y ?? 0
OriginOf(b, id) ==
    IF MapHas(b.containerAbsBounds, id)
    THEN LET p == MapGet(b.containerAbsBounds, id) IN [x |-> p.x, y |-> p.y]
    ELSE [x |-> 0, y |-> 0]

\* a plausible slip: the bounds cached relative to the parent, not absolute
addContainerRelative(b, id, parentId, kind, value, x, y, w, h) ==
    LET c == [Cell(id, parentId, kind, x, y, w, h) EXCEPT !.value = value]
    IN  [Emit(b, c) EXCEPT !.containerAbsBounds =
            MapSet(@, id, [x |-> x, y |-> y, width |-> w, height |-> h])]

addContainer(b, id, parentId, kind, value, x, y, w, h) ==
    LET c == [Cell(id, parentId, kind, x, y, w, h) EXCEPT !.value = value]
        o == OriginOf(b, parentId)
    IN  [Emit(b, c) EXCEPT !.containerAbsBounds =
            MapSet(@, id, [x |-> x + o.x, y |-> y + o.y, width |-> w, height |-> h])]

addIcon(b, parentId, x, y, w, h) ==
    Emit([b EXCEPT !.idCounter = @ + 1], Cell(nextId(b), parentId, "icon", x, y, w, h))

Register(b, name, id, parentId, pos) ==
    [b EXCEPT !.cellMap = MapSet(@, name, [id |-> id, parentId |-> parentId,
                                            position |-> pos])]

\* a property of a resource: the key and the value as text, characters one by
\* one (String(value)); isNull says the value is null or undefined
Prop(key, value) == [key |-> key, value |-> value, isNull |-> FALSE]

NullProp(key) == [key |-> key, value |-> <<>>, isNull |-> TRUE]

\* displayKeys of getDisplayProperties, in the order of the object literal
displayKeys ==
    << [key |-> <<"s", "k", "u">>, label |-> "SKU: "],
       [key |-> <<"t", "i", "e", "r">>, label |-> "Tier: "],
       [key |-> <<"s", "i", "z", "e">>, label |-> "Size: "],
       [key |-> <<"v", "m", "S", "i", "z", "e">>, label |-> "Size: "],
       [key |-> <<"a", "d", "d", "r", "e", "s", "s", "S", "p", "a", "c", "e">>,
        label |-> "CIDR: "],
       [key |-> <<"a", "d", "d", "r", "e", "s", "s", "P", "r", "e", "f", "i", "x">>,
        label |-> "CIDR: "],
       [key |-> <<"b", "a", "n", "d", "w", "i", "d", "t", "h">>, label |-> "BW: "],
       [key |-> <<"c", "a", "p", "a", "c", "i", "t", "y">>, label |-> "Cap: "],
       [key |-> <<"r", "e", "p", "l", "i", "c", "a", "C", "o", "u", "n", "t">>,
        label |-> "Replicas: "],
       [key |-> <<"n", "o", "d", "e", "C", "o", "u", "n", "t">>, label |-> "Nodes: "],
       [key |-> <<"v", "e", "r", "s", "i", "o", "n">>, label |-> "v: "],
       [key |-> <<"k", "i", "n", "d">>, label |-> "Kind: "] >>

\* resource.properties[key] is neither undefined nor null
HasProp(props, key) == \E k \in 1..Len(props) : props[k].key = key /\ ~props[k].isNull

PropValue(props, key) == props[CHOOSE k \in 1..Len(props) : props[k].key = key].value

RECURSIVE displayLabels(_, _)
\* the labels of getDisplayProperties before the slice: one text, label and value,
\* for each display key the resource has, from display key i on
displayLabels(props, i) ==
    IF i > Len(displayKeys) THEN <<>>
    ELSE (IF HasProp(props, displayKeys[i].key)
          THEN << <<displayKeys[i].label>> \o PropValue(props, displayKeys[i].key) >>
          ELSE <<>>)
         \o displayLabels(props, i + 1)

\* labels.slice(0, 3)
getDisplayProperties(resource) ==
    SubSeq(displayLabels(resource.properties, 1), 1,
           Min(3, Len(displayLabels(resource.properties, 1))))

RECURSIVE JoinBar(_)
\* displayProps.join(' | ')
JoinBar(labels) ==
    IF labels = <<>> THEN <<>>
    ELSE IF Len(labels) = 1 THEN labels[1]
    ELSE labels[1] \o <<" | ">> \o JoinBar(Tail(labels))

\* propLabel: the caption below the name, empty when nothing is displayed
propLabel(resource) ==
    IF getDisplayProperties(resource) = <<>> THEN <<>>
    ELSE <<"<br><font>">> \o JoinBar(getDisplayProperties(resource)) \o <<"</font>">>

IsSpace(ch) == ch = " "

RECURSIVE Underscored(_, _)
\* key.replace(/\s+/g, '_'): every run of white space becomes one underscore;
\* inRun says the character before was white space
Underscored(key, inRun) ==
    IF key = <<>> THEN <<>>
    ELSE IF IsSpace(Head(key))
         THEN (IF inRun THEN <<>> ELSE <<"_">>) \o Underscored(Tail(key), TRUE)
         ELSE <<Head(key)>> \o Underscored(Tail(key), FALSE)

AttrId == <<"i", "d">>

AttrLabel == <<"l", "a", "b", "e", "l">>

RECURSIVE withAttributes(_, _, _)
\* obj.att(name, value) for each property that has a value, from property i on:
\* att sets the attribute of that name, so the names id and label replace the
\* identifier and the label the object was created with
withAttributes(c, props, i) ==
    IF i > Len(props) THEN c
    ELSE IF props[i].isNull THEN withAttributes(c, props, i + 1)
    ELSE LET name == Underscored(props[i].key, FALSE)
             c1 == [c EXCEPT !.attributes =
                               Append(@, [name |-> name, value |-> props[i].value]),
                             !.id = IF name = AttrId THEN props[i].value ELSE @,
                             !.value = IF name = AttrLabel THEN props[i].value ELSE @]
         IN  withAttributes(c1, props, i + 1)

\* a plausible slip: the name registered before the catalog is consulted
buildResourceRegisterFirst(b, resource, parentId, pos) ==
    IF ~KnownType(resource.type)
    THEN Register(b, resource.name, IdFor(b, resource.id), parentId, pos)
    ELSE LET def == RESOURCES[resource.type]
             id == IdFor(b, resource.id)
             b1 == TakeId([b EXCEPT !.usedResourceTypes = @ \cup {resource.type}],
                          resource.id)
             c == [Cell(id, parentId, "resource", pos.x, pos.y, def.width, def.height)
                     EXCEPT !.value = resource.name \o propLabel(resource),
                            !.type = resource.type]
         IN  Register(Emit(b1, withAttributes(c, resource.properties, 1)),
                      resource.name, id, parentId, pos)

buildResource(b, resource, parentId, pos) ==
    IF ~KnownType(resource.type) THEN b
    ELSE LET def == RESOURCES[resource.type]
             id == IdFor(b, resource.id)
             b1 == TakeId([b EXCEPT !.usedResourceTypes = @ \cup {resource.type}],
                          resource.id)
             c == [Cell(id, parentId, "resource", pos.x, pos.y, def.width, def.height)
                     EXCEPT !.value = resource.name \o propLabel(resource),
                            !.type = resource.type]
         IN  Register(Emit(b1, withAttributes(c, resource.properties, 1)),
                      resource.name, id, parentId, pos)

RECURSIVE placeResources(_, _, _, _, _, _, _, _, _)
\* the grid loops: resource i (from 1) goes to column (i-1) % maxCols and row
\* (i-1) / maxCols, whether or not it was skipped
placeResources(b, resources, parentId, x0, y0, dx, dy, maxCols, i) ==
    IF b.hung \/ i > Len(resources) THEN b
    ELSE placeResources(
            buildResource(b, resources[i], parentId,
                          [x |-> x0 + ((i - 1) % maxCols) * dx,
                           y |-> y0 + ((i - 1) \div maxCols) * dy]),
            resources, parentId, x0, y0, dx, dy, maxCols, i + 1)

buildResourceList(b, resources, parentId, pos) ==
    placeResources(b, resources, parentId, pos.x, pos.y, 130, 110, 4, 1)

buildGlobalResources(b, resources, pos) ==
    placeResources(b, resources, PageRoot, pos.x, pos.y, 100, 0, Len(resources) + 1, 1)

\* a plausible slip: the block's icon emitted before the block
buildOnPremisesIconFirst(b, onPrem, pos) ==
    LET id == IdFor(b, onPrem.id)
        name == IF onPrem.name # <<>> THEN onPrem.name
                ELSE <<"O","n","-","P","r","e","m","i","s","e","s">>
        b1 == addIcon(TakeId(b, onPrem.id), id, 20, 40, 80, 138)
        b2 == addContainer(b1, id, PageRoot, "onPremises", name,
                           pos.x, pos.y, onPremWidth(onPrem), onPremHeight(onPrem))
        b3 == Register(b2, name, id, PageRoot, pos)
    IN  placeResources(b3, onPrem.resources, id, 120, 50, 0, 85, 1, 1)

buildOnPremises(b, onPrem, pos) ==
    LET id == IdFor(b, onPrem.id)
        name == IF onPrem.name # <<>> THEN onPrem.name
                ELSE <<"O","n","-","P","r","e","m","i","s","e","s">>
        key == IF onPrem.name # <<>> THEN onPrem.name
               ELSE <<"O","n","-","P","r","e","m","i","s","e","s"," ",
                      "D","a","t","a","c","e","n","t","e","r">>
        b1 == addContainer(TakeId(b, onPrem.id), id, PageRoot, "onPremises", name,
                           pos.x, pos.y, onPremWidth(onPrem), onPremHeight(onPrem))
        b2 == addIcon(b1, id, 20, 40, 80, 138)
        b3 == Register(b2, key, id, PageRoot, pos)
    IN  placeResources(b3, onPrem.resources, id, 120, 50, 0, 85, 1, 1)

\* `AZ-${azGroup.zone}-${subnet.name}`
AZKey(azGroup, subnet) == <<"A", "Z", "-">> \o NumChars(azGroup.zone) \o <<"-">> \o subnet.name

\* `Availability Zone ${azGroup.zone}`, abbreviated to its variable part
AZLabel(azGroup) == <<"A", "Z", " ">> \o NumChars(azGroup.zone)

RECURSIVE buildAZGroups(_, _, _, _, _)
\* buildSubnet's loop over subnet.availabilityZones; azX is the running x
buildAZGroups(b, subnet, id, azX, i) ==
    IF b.hung \/ i > Len(subnet.availabilityZones) THEN b
    ELSE LET azGroup == subnet.availabilityZones[i]
             azId == nextId(b)
             w == azWidth(azGroup)
             h == azHeight(azGroup)
             b1 == addContainer([b EXCEPT !.idCounter = @ + 1], azId, id,
                                "availabilityZone", AZLabel(azGroup), azX, 45, w, h)
             b2 == Register(b1, AZKey(azGroup, subnet), azId, id, [x |-> azX, y |-> 45])
             maxCols == Max(2, (w - 30) \div 130)
             b3 == placeResources(b2, azGroup.resources, azId, 15, 40, 130, 110, maxCols, 1)
         IN  buildAZGroups(b3, subnet, id, azX + w + 15, i + 1)

buildSubnet(b, subnet, vnetId, pos) ==
    LET id == IdFor(b, subnet.id)
        width == calculateSubnetWidth(subnet)
        height == calculateSubnetHeight(subnet)
        b1 == addContainer(TakeId(b, subnet.id), id, vnetId, "subnet", subnet.name,
                           pos.x, pos.y, width, height)
        b2 == Register(b1, subnet.name, id, vnetId, pos)
        hasAZ == Len(subnet.availabilityZones) > 0
        b3 == IF hasAZ THEN buildAZGroups(b2, subnet, id, 15, 1) ELSE b2
        resY == IF hasAZ THEN calculateAZSectionHeight(subnet) + 55 ELSE 45
        maxCols == Max(2, (width - 30) \div 130)
    IN  placeResources(b3, subnet.resources, id, 15, resY, 130, 110, maxCols, 1)

RECURSIVE buildSubnets(_, _, _, _, _, _, _)
\* buildVNet's loop over vnet.subnets: a hub advances x, any other VNet advances y
buildSubnets(b, subnets, id, isHub, subnetX, subnetY, i) ==
    IF b.hung \/ i > Len(subnets) THEN b
    ELSE buildSubnets(
            buildSubnet(b, subnets[i], id, [x |-> subnetX, y |-> subnetY]),
            subnets, id, isHub,
            IF isHub THEN subnetX + calculateSubnetWidth(subnets[i]) + 20 ELSE subnetX,
            IF isHub THEN subnetY ELSE subnetY + calculateSubnetHeight(subnets[i]) + 20,
            i + 1)

buildVNet(b, vnet, rgId, pos) ==
    LET id == IdFor(b, vnet.id)
        width == calculateVNetWidth(vnet)
        height == calculateVNetHeight(vnet)
        b1 == addContainer(TakeId(b, vnet.id), id, rgId,
                           IF vnet.type = "hubVnet" THEN "vnetHub" ELSE "vnet",
                           vnet.name, pos.x, pos.y, width, height)
        b2 == addIcon(b1, id, width - 80, 5, 67, 40)
        b3 == Register(b2, vnet.name, id, rgId, pos)
    IN  IF vnet.hasSubnets
        THEN buildSubnets(b3, vnet.subnets, id, vnet.type = "hubVnet", 20, 50, 1)
        ELSE b3

RECURSIVE buildVNets(_, _, _, _, _)
\* buildResourceGroup's loop over the VNets, stacked from vnetY down
buildVNets(b, vnets, id, vnetY, i) ==
    IF b.hung \/ i > Len(vnets) THEN b
    ELSE buildVNets(buildVNet(b, vnets[i], id, [x |-> 20, y |-> vnetY]), vnets, id,
                    vnetY + calculateVNetHeight(vnets[i]) + 30, i + 1)

\* `rg-${id}`
RGFallbackName(id) == <<"r", "g", "-">> \o id

buildResourceGroup(b, rg, containerId, pos) ==
    LET id == IdFor(b, rg.id)
        width == calculateRGWidth(rg)
        height == calculateRGHeight(rg)
        b1 == addContainer(TakeId(b, rg.id), id, containerId, "resourceGroup",
                           IF rg.name # <<>> THEN rg.name
                           ELSE <<"R","e","s","o","u","r","c","e"," ","G","r","o","u","p">>,
                           pos.x, pos.y, width, height)
        b2 == Register(b1, IF rg.name # <<>> THEN rg.name ELSE RGFallbackName(id),
                       id, containerId, pos)
        vnets == SelectVNets(rg.resources)
        otherResources == SelectOthers(rg.resources)
        b3 == buildVNets(b2, vnets, id, 40, 1)
        gridStartX == IF Len(vnets) > 0
                      THEN SeqMax([i \in 1..Len(vnets) |-> calculateVNetWidth(vnets[i])]) + 50
                      ELSE 20
    IN  placeResources(b3, otherResources, id, gridStartX, 50, 130, 110, 4, 1)

RECURSIVE buildResourceGroupsDown(_, _, _, _, _, _)
\* buildRegion's loop: resource groups stacked from rgY down
buildResourceGroupsDown(b, rgs, id, rgX, rgY, i) ==
    IF b.hung \/ i > Len(rgs) THEN b
    ELSE buildResourceGroupsDown(
            buildResourceGroup(b, rgs[i], id, [x |-> rgX, y |-> rgY]),
            rgs, id, rgX, rgY + calculateRGHeight(rgs[i]) + 40, i + 1)

RECURSIVE buildResourceGroupsAcross(_, _, _, _, _, _)
\* buildSubscription's loop: resource groups side by side from rgX on
buildResourceGroupsAcross(b, rgs, id, rgX, rgY, i) ==
    IF b.hung \/ i > Len(rgs) THEN b
    ELSE buildResourceGroupsAcross(
            buildResourceGroup(b, rgs[i], id, [x |-> rgX, y |-> rgY]),
            rgs, id, rgX + calculateRGWidth(rgs[i]) + 40, rgY, i + 1)

\* the y at which buildRegion puts the region's direct resources
RegionResourcesY(region) ==
    50 + SeqSum([i \in 1..Len(region.resourceGroups) |->
                    calculateRGHeight(region.resourceGroups[i]) + 40])

buildRegion(b, region, pos, containerId) ==
    LET id == IdFor(b, region.id)
        width == calculateRegionWidth(region)
        height == calculateRegionHeight(region)
        b1 == addContainer(TakeId(b, region.id), id, containerId, "region",
                           IF region.isPrimary
                           THEN region.name \o <<" ","(","P","r","i","m","a","r","y",")">>
                           ELSE region.name,
                           pos.x, pos.y, width, height)
        b2 == Register(b1, region.name, id, containerId, pos)
        b3 == buildResourceGroupsDown(b2, region.resourceGroups, id, 30, 50, 1)
    IN  buildResourceList(b3, region.resources, id,
                          [x |-> 30, y |-> RegionResourcesY(region)])

RECURSIVE buildRegionsAcross(_, _, _, _, _, _)
\* buildSubscription's loop over sub.regions
buildRegionsAcross(b, regions, id, regionX, rgY, i) ==
    IF b.hung \/ i > Len(regions) THEN b
    ELSE buildRegionsAcross(
            buildRegion(b, regions[i], [x |-> regionX, y |-> rgY], id),
            regions, id, regionX + calculateRegionWidth(regions[i]) + 60, rgY, i + 1)

buildSubscription(b, sub, pos) ==
    LET id == IdFor(b, sub.id)
        width == calculateSubscriptionWidth(sub)
        height == calculateSubscriptionHeight(sub)
        b1 == addContainer(TakeId(b, sub.id), id, PageRoot, "subscription",
                           IF sub.name # <<>> THEN sub.name
                           ELSE <<"S","u","b","s","c","r","i","p","t","i","o","n">>,
                           pos.x, pos.y, width, height)
        b2 == addIcon(b1, id, 10, 30, 44, 71)
        b3 == Register(b2, IF sub.name # <<>> THEN sub.name
                           ELSE <<"s","u","b","s","c","r","i","p","t","i","o","n">>,
                       id, PageRoot, pos)
    IN  IF Len(sub.regions) > 0
        THEN buildRegionsAcross(b3, sub.regions, id, 70, 50, 1)
        ELSE buildResourceGroupsAcross(b3, sub.resourceGroups, id, 70, 50, 1)

(***************************************************************************)
(* Connection Router                                                       *)
(***************************************************************************)

\* getAbsoluteCenter, doubled: x2 = 2 * centre x, y2 = 2 * centre y
getAbsoluteCenter(b, cell) ==
    LET o == OriginOf(b, cell.parentId)
        absX == cell.position.x + o.x
        absY == cell.position.y + o.y
    IN  IF MapHas(b.containerAbsBounds, cell.id)
        THEN LET own == MapGet(b.containerAbsBounds, cell.id)
             IN  [x2 |-> 2 * absX + own.width, y2 |-> 2 * absY + own.height]
        ELSE [x2 |-> 2 * (absX + 32), y2 |-> 2 * (absY + 32)]

getAbsoluteRightEdge(b, cell) ==
    LET absX == cell.position.x + OriginOf(b, cell.parentId).x
    IN  IF MapHas(b.containerAbsBounds, cell.id)
        THEN absX + MapGet(b.containerAbsBounds, cell.id).width
        ELSE absX + 64

\* the first cellMap value, in insertion order, whose id is pid (NoCell for none)
EntryWithId(m, pid) ==
    IF \E i \in 1..Len(m) : m[i].val.id = pid
    THEN m[CHOOSE i \in 1..Len(m) :
              /\ m[i].val.id = pid
              /\ \A j \in 1..(i - 1) : m[j].val.id # pid].val
    ELSE NoCell

RECURSIVE AncestorWalk(_, _, _, _)
\* getAncestorIds' while loop from pid on.  The walk is a function of pid alone,
\* so a pid met twice means that the loop never ends: diverged.
AncestorWalk(m, pid, ids, walked) ==
    IF pid = <<>> \/ pid = <<"0">> THEN [ids |-> ids, diverged |-> FALSE]
    ELSE IF pid \in walked THEN [ids |-> ids, diverged |-> TRUE]
    ELSE LET c == EntryWithId(m, pid)
         IN  IF c = NoCell THEN [ids |-> ids \cup {pid}, diverged |-> FALSE]
             ELSE AncestorWalk(m, c.parentId, ids \cup {pid}, walked \cup {pid})

getAncestorIds(b, cell) == AncestorWalk(b.cellMap, cell.parentId, {cell.id}, {})

isInsideBounds(inner, outer) ==
    /\ inner.x >= outer.x
    /\ inner.y >= outer.y
    /\ inner.x + inner.width <= outer.x + outer.width
    /\ inner.y + inner.height <= outer.y + outer.height

\* findObstructingContainers: the containerAbsBounds entries [key, val] it returns
\* (the code returns the values); the comparisons are on doubled coordinates
findObstructingContainers(b, from, to) ==
    LET fromCenter == getAbsoluteCenter(b, from)
        toCenter == getAbsoluteCenter(b, to)
        topY2 == Min(fromCenter.y2, toCenter.y2)
        botY2 == Max(fromCenter.y2, toCenter.y2)
        skipIds == getAncestorIds(b, from).ids \cup getAncestorIds(b, to).ids
        leftX2 == Min(fromCenter.x2, toCenter.x2) - 100
        rightX2 == Max(fromCenter.x2, toCenter.x2) + 100
        Obstructs(e) ==
            /\ e.key \notin skipIds
            /\ ~(MapHas(b.containerAbsBounds, from.id)
                 /\ isInsideBounds(e.val, MapGet(b.containerAbsBounds, from.id)))
            /\ ~(MapHas(b.containerAbsBounds, to.id)
                 /\ isInsideBounds(e.val, MapGet(b.containerAbsBounds, to.id)))
            /\ ~(2 * e.val.y + e.val.height <= topY2 \/ 2 * e.val.y + e.val.height >= botY2)
            /\ ~(2 * (e.val.x + e.val.width) < leftX2 \/ 2 * e.val.x > rightX2)
    IN  IF botY2 - topY2 < 200 THEN <<>>
        ELSE SelectSeq(b.containerAbsBounds, Obstructs)

\* whether findObstructingContainers ever returns: the threshold return comes
\* before the ancestor walks, which loop for ever on a cycle of parents
RoutingDiverges(b, from, to) ==
    LET fromCenter == getAbsoluteCenter(b, from)
        toCenter == getAbsoluteCenter(b, to)
    IN  /\ Max(fromCenter.y2, toCenter.y2) - Min(fromCenter.y2, toCenter.y2) >= 200
        /\ getAncestorIds(b, from).diverged \/ getAncestorIds(b, to).diverged

ConnectionStyles == {"dashed", "expressroute", "vpn", "peering"}

\* buildConnections: usedConnectionStyles.add(conn.style) when a style is given
UseStyle(b, conn) ==
    IF conn.style # "" THEN [b EXCEPT !.usedConnectionStyles = @ \cup {conn.style}] ELSE b

\* a plausible slip: the waypoints clear the two endpoints but not the obstructions
WaypointsPastEndpoints(b, from, to, obstructions) ==
    LET fromRight == getAbsoluteRightEdge(b, from)
        toRight == getAbsoluteRightEdge(b, to)
    IN  << [x |-> Max(fromRight, toRight) + 40, y2 |-> getAbsoluteCenter(b, from).y2],
           [x |-> Max(fromRight, toRight) + 40, y2 |-> getAbsoluteCenter(b, to).y2] >>

\* buildConnections: the waypoints, given what findObstructingContainers returned
Waypoints(b, from, to, obstructions) ==
    LET fromRight == getAbsoluteRightEdge(b, from)
        toRight == getAbsoluteRightEdge(b, to)
        obstRight == SeqMax([k \in 1..Len(obstructions) |->
                                obstructions[k].val.x + obstructions[k].val.width])
        waypointX(right) == Max(Max(fromRight, toRight), right) + 40
        At(x) == << [x |-> x, y2 |-> getAbsoluteCenter(b, from).y2],
                    [x |-> x, y2 |-> getAbsoluteCenter(b, to).y2] >>
    IN  At(waypointX(obstRight))

\* buildConnections: the edge cell of one resolved connection
EdgeCell(b, conn, from, to, obstructions) ==
    [Cell(nextId(b), PageRoot, "edge", 0, 0, 0, 0) EXCEPT
        !.value = conn.label,
        !.style = conn.style,
        !.source = from.id,
        !.target = to.id,
        !.routed = Len(obstructions) > 0,
        !.obstructing = [k \in 1..Len(obstructions) |-> obstructions[k].key],
        !.points = IF Len(obstructions) > 0
                   THEN Waypoints(b, from, to, obstructions) ELSE <<>>]

\* buildConnections: one turn of the loop for a connection that resolved
connect(b, conn, from, to) ==
    IF RoutingDiverges(b, from, to)
    THEN [UseStyle(b, conn) EXCEPT !.hung = TRUE]
    ELSE Emit([UseStyle(b, conn) EXCEPT !.idCounter = @ + 1],
              EdgeCell(b, conn, from, to, findObstructingContainers(b, from, to)))

\* buildConnections: one turn of the loop
connectIfFound(b, conn, from, to) ==
    IF from = NoCell \/ to = NoCell THEN b ELSE connect(b, conn, from, to)

\* a plausible slip: the style recorded before the endpoints are checked
buildConnectionStyleFirst(b, conn) ==
    connectIfFound(UseStyle(b, conn), conn,
                   findCell(b.cellMap, conn.from), findCell(b.cellMap, conn.to))

buildConnection(b, conn) ==
    connectIfFound(b, conn, findCell(b.cellMap, conn.from), findCell(b.cellMap, conn.to))

RECURSIVE buildConnections(_, _, _)
buildConnections(b, connections, i) ==
    IF b.hung \/ i > Len(connections) THEN b
    ELSE buildConnections(buildConnection(b, connections[i]), connections, i + 1)

(***************************************************************************)
(* Title & Legend Builder, page sizes, generatePage                        *)
(***************************************************************************)

RECURSIVE SortByRank(_)
\* Array.from(usedResourceTypes).sort(by displayName): ascending rank
SortByRank(types) ==
    IF types = {} THEN <<>>
    ELSE LET t == CHOOSE u \in types : \A v \in types : RESOURCES[u].rank <= RESOURCES[v].rank
         IN  <<t>> \o SortByRank(types \ {t})

\* the connStyles array of buildLegend, in the order of its four tests
LegendConnStyles(used) ==
    SelectSeq(<<"expressroute", "vpn", "peering", "dashed">>, LAMBDA cs : cs \in used)

RECURSIVE legendItemCells(_, _, _, _, _)
\* buildLegend's loop over legendItems: an icon and a label per type
legendItemCells(b, items, legendId, entryY, i) ==
    IF b.hung \/ i > Len(items) THEN b
    ELSE LET icon == [Cell(nextId(b), legendId, "legendIcon", 8, entryY, 20, 20)
                        EXCEPT !.type = items[i]]
             b1 == Emit([b EXCEPT !.idCounter = @ + 1], icon)
             label == [Cell(nextId(b1), legendId, "legendLabel", 34, entryY, 170, 20)
                         EXCEPT !.type = items[i]]
             b2 == Emit([b1 EXCEPT !.idCounter = @ + 1], label)
         IN  legendItemCells(b2, items, legendId, entryY + 28, i + 1)

RECURSIVE legendStyleCells(_, _, _, _, _)
\* buildLegend's loop over connStyles: a sample edge and a label per style
legendStyleCells(b, connStyles, legendId, entryY, i) ==
    IF b.hung \/ i > Len(connStyles) THEN b
    ELSE LET line == [Cell(nextId(b), legendId, "legendEdge", 8, entryY + 10, 40, 0)
                        EXCEPT !.style = connStyles[i]]
             b1 == Emit([b EXCEPT !.idCounter = @ + 1], line)
             label == [Cell(nextId(b1), legendId, "legendStyleLabel", 34, entryY, 170, 20)
                         EXCEPT !.style = connStyles[i]]
             b2 == Emit([b1 EXCEPT !.idCounter = @ + 1], label)
         IN  legendStyleCells(b2, connStyles, legendId, entryY + 28, i + 1)

\* buildLegend: the connection styles section, from its header on
legendStyleSection(b, connStyles, legendId, entryY) ==
    IF Len(connStyles) > 0
    THEN legendStyleCells(
            Emit([b EXCEPT !.idCounter = @ + 1],
                 Cell(nextId(b), legendId, "legendHeader", 8, entryY + 5, 190, 15)),
            connStyles, legendId, entryY + 5 + 18, 1)
    ELSE b

\* buildLegend: the legend's container and everything in it
legendCells(b, legendItems, connStyles, legendId, x, y) ==
    legendStyleSection(
        legendItemCells(
            addContainer([b EXCEPT !.idCounter = @ + 1], legendId, PageRoot, "legend",
                         <<"L","e","g","e","n","d">>, x, y, 210,
                         30 + Len(legendItems) * 28 + 10
                            + (IF Len(connStyles) > 0 THEN 20 + Len(connStyles) * 28 ELSE 0)),
            legendItems, legendId, 30, 1),
        connStyles, legendId, 30 + Len(legendItems) * 28)

\* a plausible slip: the legend lists the catalog, not the types that were used
buildLegendWholeCatalog(b, x, y) ==
    IF b.usedResourceTypes = {} THEN b
    ELSE legendCells(b, SortByRank(DOMAIN RESOURCES),
                     LegendConnStyles(b.usedConnectionStyles), nextId(b), x, y)

buildLegend(b, x, y) ==
    IF b.usedResourceTypes = {} THEN b
    ELSE legendCells(b, SortByRank(b.usedResourceTypes),
                     LegendConnStyles(b.usedConnectionStyles), nextId(b), x, y)

estimatePageWidth(arch) ==
    IF Len(arch.regions) > 0
    THEN Max(1500, 100 + SeqSum([i \in 1..Len(arch.regions) |->
                                    calculateRegionWidth(arch.regions[i]) + 80]))
    ELSE IF Len(arch.subscription) > 0
    THEN Max(1500, calculateSubscriptionWidth(arch.subscription[1]) + 200)
    ELSE Max(1500, 100 + SeqSum([i \in 1..Len(arch.subscriptions) |->
                                    calculateSubscriptionWidth(arch.subscriptions[i]) + 80]))

estimatePageHeight(arch) ==
    LET m1 == Max(800, SeqMax([i \in 1..Len(arch.regions) |->
                                  calculateRegionHeight(arch.regions[i]) + 200]))
        m2 == IF Len(arch.subscription) > 0
              THEN Max(m1, calculateSubscriptionHeight(arch.subscription[1]) + 200)
              ELSE m1
        m3 == Max(m2, SeqMax([i \in 1..Len(arch.subscriptions) |->
                                 calculateSubscriptionHeight(arch.subscriptions[i]) + 200]))
    IN  IF Len(arch.onPremises) > 0
        THEN m3 + SeqMax([i \in 1..Len(arch.onPremises) |->
                             Max(200, Len(arch.onPremises[i].resources) * 90 + 80)]) + 100
        ELSE m3

\* generatePage: Math.ceil(descLen / 100) lines, Math.max(60, 30 + descLines * 18)
\* a plausible slip: the floor of 60 applied to a title without description too
TitleHeightFloored(descLen) ==
    LET descLines == IF descLen > 0 THEN CeilDiv(descLen, 100) ELSE 0
    IN  Max(60, 30 + descLines * 18)

TitleHeight(descLen) ==
    LET descLines == IF descLen > 0 THEN CeilDiv(descLen, 100) ELSE 0
    IN  IF descLines > 0 THEN Max(60, 30 + descLines * 18) ELSE 30

\* generatePage: titleOffset
TitleOffset(arch) == IF arch.title # <<>> THEN TitleHeight(arch.description) + 10 ELSE 0

RECURSIVE pageRegions(_, _, _, _, _)
\* generatePage's loop over arch.regions
pageRegions(b, regions, currentX, currentY, i) ==
    IF b.hung \/ i > Len(regions) THEN b
    ELSE pageRegions(buildRegion(b, regions[i], [x |-> currentX, y |-> currentY], PageRoot),
                     regions, currentX + calculateRegionWidth(regions[i]) + 80, currentY,
                     i + 1)

RECURSIVE pageSubscriptions(_, _, _, _, _)
\* generatePage's loop over arch.subscriptions
pageSubscriptions(b, subs, currentX, currentY, i) ==
    IF b.hung \/ i > Len(subs) THEN b
    ELSE pageSubscriptions(buildSubscription(b, subs[i], [x |-> currentX, y |-> currentY]),
                           subs, currentX + calculateSubscriptionWidth(subs[i]) + 80,
                           currentY, i + 1)

RECURSIVE pageOnPremises(_, _, _, _, _)
\* generatePage's loop over arch.onPremises
pageOnPremises(b, onPremises, onPremX, onPremY, i) ==
    IF b.hung \/ i > Len(onPremises) THEN b
    ELSE pageOnPremises(buildOnPremises(b, onPremises[i], [x |-> onPremX, y |-> onPremY]),
                        onPremises, onPremX + 400, onPremY, i + 1)

\* generatePage: totalCloudWidth after the cloud content is placed
TotalCloudWidth(arch) ==
    IF Len(arch.regions) > 0
    THEN 50 + SeqSum([i \in 1..Len(arch.regions) |->
                         calculateRegionWidth(arch.regions[i]) + 80])
    ELSE IF Len(arch.subscription) > 0
    THEN calculateSubscriptionWidth(arch.subscription[1])
    ELSE IF Len(arch.subscriptions) > 0
    THEN 50 + SeqSum([i \in 1..Len(arch.subscriptions) |->
                         calculateSubscriptionWidth(arch.subscriptions[i]) + 80])
    ELSE 0

\* generatePage: maxCloudHeight after the cloud content is placed
MaxCloudHeight(arch) ==
    IF Len(arch.regions) > 0
    THEN SeqMax([i \in 1..Len(arch.regions) |-> calculateRegionHeight(arch.regions[i])])
    ELSE IF Len(arch.subscription) > 0
    THEN calculateSubscriptionHeight(arch.subscription[1])
    ELSE SeqMax([i \in 1..Len(arch.subscriptions) |->
                    calculateSubscriptionHeight(arch.subscriptions[i])])

\* a plausible slip: the registry not cleared between pages
ClearForPageKeepingRegistry(b) ==
    [b EXCEPT !.idCounter = 0, !.usedResourceTypes = {}, !.usedConnectionStyles = {},
              !.containerAbsBounds = <<>>, !.cells = <<>>, !.hung = FALSE]

\* generatePage's four clear() calls and idCounter = 0, and the page's new root
ClearForPage(b) ==
    [b EXCEPT !.cellMap = <<>>, !.idCounter = 0, !.usedResourceTypes = {},
              !.usedConnectionStyles = {}, !.containerAbsBounds = <<>>,
              !.cells = <<>>, !.hung = FALSE]

\* generatePage: the base cells 0 and 1 and the title block
pageTitle(b, arch) ==
    LET Title(base) ==
            IF arch.title # <<>>
            THEN Emit([base EXCEPT !.idCounter = @ + 1],
                      [Cell(nextId(base), PageRoot, "title", 50, 10, 800,
                            TitleHeight(arch.description))
                         EXCEPT !.value = arch.title])
            ELSE base
    IN  Title(Emit(Emit(b, Cell(<<"0">>, <<>>, "base", 0, 0, 0, 0)),
                   Cell(PageRoot, <<"0">>, "base", 0, 0, 0, 0)))

\* generatePage: regions, else the subscription, else the subscriptions
pageCloud(b, arch) ==
    IF Len(arch.regions) > 0
    THEN pageRegions(b, arch.regions, 50, 50 + TitleOffset(arch), 1)
    ELSE IF Len(arch.subscription) > 0
    THEN buildSubscription(b, arch.subscription[1], [x |-> 50, y |-> 50 + TitleOffset(arch)])
    ELSE pageSubscriptions(b, arch.subscriptions, 50, 50 + TitleOffset(arch), 1)

\* generatePage: the on-premises blocks, below the cloud content and centred on it
pagePremises(b, arch) ==
    pageOnPremises(b, arch.onPremises,
                   Max(50, (TotalCloudWidth(arch) - Len(arch.onPremises) * 400) \div 2),
                   50 + TitleOffset(arch) + MaxCloudHeight(arch) + 60, 1)

\* generatePage: the global resources
pageGlobal(b, arch) ==
    IF Len(arch.globalResources) > 0
    THEN buildGlobalResources(b, arch.globalResources, [x |-> 50, y |-> 10])
    ELSE b

\* generatePage: the legend, when a resource type was used (never reached when
\* routing a connection did not return)
\* a plausible slip: the legend flush with the page's right edge, beside the title
pageLegendFlush(b, arch) ==
    IF b.hung \/ b.usedResourceTypes = {} THEN b
    ELSE buildLegend(b, Max(TotalCloudWidth(arch), estimatePageWidth(arch)) - 210, 10)

pageLegend(b, arch) ==
    IF b.hung \/ b.usedResourceTypes = {} THEN b
    ELSE buildLegend(b, Max(TotalCloudWidth(arch), estimatePageWidth(arch)) - 230,
                     50 + TitleOffset(arch))

\* generatePage after the clears: the builder when the page is done, its cells emitted
\* a plausible slip: the global resources placed before the cloud content
layoutPageGlobalFirst(b0, arch) ==
    pageLegend(
        buildConnections(
            pagePremises(pageCloud(pageGlobal(pageTitle(b0, arch), arch), arch), arch),
            arch.connections, 1),
        arch)

layoutPage(b0, arch) ==
    pageLegend(
        buildConnections(
            pageGlobal(pagePremises(pageCloud(pageTitle(b0, arch), arch), arch), arch),
            arch.connections, 1),
        arch)

generatePage(b, arch) == layoutPage(ClearForPage(b), arch)

(***************************************************************************)
(* Architecture values (schema/types.ts), as the builder reads them        *)
(***************************************************************************)

Res(type, name) ==
    [type |-> type, name |-> name, id |-> <<>>, hasSubnets |-> FALSE, subnets |-> <<>>,
     properties |-> <<>>]

VNet(type, name, subnets) ==
    [type |-> type, name |-> name, id |-> <<>>, hasSubnets |-> TRUE, subnets |-> subnets,
     properties |-> <<>>]

AZGroup(zone, resources) == [zone |-> zone, resources |-> resources]

Subnet(name, availabilityZones, resources) ==
    [name |-> name, id |-> <<>>, availabilityZones |-> availabilityZones,
     resources |-> resources]

ResourceGroup(name, resources) == [name |-> name, id |-> <<>>, resources |-> resources]

Region(name, resourceGroups, resources) ==
    [name |-> name, id |-> <<>>, isPrimary |-> FALSE,
     resourceGroups |-> resourceGroups, resources |-> resources]

Subscription(name, regions, resourceGroups) ==
    [name |-> name, id |-> <<>>, regions |-> regions, resourceGroups |-> resourceGroups]

OnPremises(name, resources) == [name |-> name, id |-> <<>>, resources |-> resources]

Connection(from, to, style) == [from |-> from, to |-> to, style |-> style, label |-> <<>>]

\* an Architecture with no pages; subscription is <<>> or <<the subscription>>
Architecture(title, description, regions, sub, subs, onPremises, global, connections) ==
    [title |-> title, description |-> description, regions |-> regions,
     subscription |-> sub, subscriptions |-> subs,
     onPremises |-> onPremises, globalResources |-> global,
     connections |-> connections, pages |-> <<>>]

\* a DiagramPage
DiagramPage(name, regions, subscription, hasResourceGroups, resourceGroups, connections) ==
    [name |-> name, description |-> 0, regions |-> regions, subscription |-> subscription,
     hasResourceGroups |-> hasResourceGroups, resourceGroups |-> resourceGroups,
     onPremises |-> <<>>, globalResources |-> <<>>, connections |-> connections]

\* a multi-page Architecture
Document(title, pages) ==
    [Architecture(title, 0, <<>>, <<>>, <<>>, <<>>, <<>>, <<>>) EXCEPT !.pages = pages]

(***************************************************************************)
(* generate, page by page                                                  *)
(***************************************************************************)

\* generate: the pageArch it builds for one entry of arch.pages
PageArch(page) ==
    [title |-> page.name, description |-> page.description, regions |-> page.regions,
     subscription |->
        IF page.hasResourceGroups
        THEN << Subscription(<<"A","z","u","r","e"," ","S","u","b","s","c","r","i","p",
                               "t","i","o","n">>, <<>>, page.resourceGroups) >>
        ELSE page.subscription,
     subscriptions |-> <<>>, onPremises |-> page.onPremises,
     globalResources |-> page.globalResources, connections |-> page.connections,
     pages |-> <<>>]

\* generate: the (pageName, arch) pairs it hands to generatePage, in order
PagesOf(a) ==
    IF Len(a.pages) > 0
    THEN [i \in 1..Len(a.pages) |-> [name |-> a.pages[i].name, arch |-> PageArch(a.pages[i])]]
    ELSE << [name |-> IF a.title # <<>> THEN a.title
                      ELSE <<"A","z","u","r","e"," ","A","r","c","h","i","t","e","c","t",
                             "u","r","e">>,
             arch |-> a] >>

\* generateCellId('diagram') of utils/id-generator for counter value n
DiagramId(n) == <<"d","i","a","g","r","a","m","-">> \o NumChars(n)

\* the builder's fields as one record, as the layout operators thread them
Builder ==
    [cellMap |-> cellMap, idCounter |-> idCounter, usedResourceTypes |-> usedResourceTypes,
     usedConnectionStyles |-> usedConnectionStyles,
     containerAbsBounds |-> containerAbsBounds, cells |-> <<>>, hung |-> FALSE]

NoDoc == [modified |-> 0, pages |-> <<>>]

NoArch == Document(<<>>, <<>>)

NoResult == [called |-> FALSE, arch |-> NoArch, doc |-> NoDoc]

NoLookup == [name |-> <<>>, result |-> NoCell]

NoSized == [kind |-> "none"]

FieldsUnchanged ==
    UNCHANGED <<cellMap, idCounter, usedResourceTypes, usedConnectionStyles,
                containerAbsBounds>>

\* new DrawIOBuilder(): the field initialisers and resetCounter()
Construct ==
    /\ phase = "idle"
    /\ cellMap' = NewBuilder.cellMap
    /\ idCounter' = NewBuilder.idCounter
    /\ usedResourceTypes' = NewBuilder.usedResourceTypes
    /\ usedConnectionStyles' = NewBuilder.usedConnectionStyles
    /\ containerAbsBounds' = NewBuilder.containerAbsBounds
    /\ counter' = 0
    /\ UNCHANGED <<clock, phase, calls, request, pending, doc, returned, lookup, sized>>
    /\ UNCHANGED webVars

\* generate(arch) up to its first generatePage call: the mxfile element
Generate(a, limit) ==
    /\ phase = "idle"
    /\ calls < limit
    /\ phase' = "generating"
    /\ calls' = calls + 1
    /\ request' = a
    /\ doc' = [modified |-> clock, pages |-> <<>>]
    /\ pending' = PagesOf(a)
    /\ FieldsUnchanged
    /\ UNCHANGED <<counter, clock, returned, lookup, sized>>
    /\ UNCHANGED webVars

\* generatePage's effects: b is the builder when the page p is done
PageDone(p, b) ==
    /\ cellMap' = b.cellMap
    /\ idCounter' = b.idCounter
    /\ usedResourceTypes' = b.usedResourceTypes
    /\ usedConnectionStyles' = b.usedConnectionStyles
    /\ containerAbsBounds' = b.containerAbsBounds
    /\ counter' = counter + 1
    /\ phase' = IF b.hung THEN "hung" ELSE "generating"
    /\ doc' = [doc EXCEPT !.pages =
                 Append(@, [id |-> DiagramId(counter + 1), name |-> p.name,
                            pageWidth |-> estimatePageWidth(p.arch),
                            pageHeight |-> estimatePageHeight(p.arch),
                            cells |-> b.cells, arch |-> p.arch])]

\* one generatePage call of generate's loop
GeneratePage ==
    /\ phase = "generating"
    /\ pending # <<>>
    /\ PageDone(Head(pending), generatePage(Builder, Head(pending).arch))
    /\ pending' = Tail(pending)
    /\ UNCHANGED <<clock, calls, request, returned, lookup, sized>>
    /\ UNCHANGED webVars

\* generate: return doc.end(...)
Return ==
    /\ phase = "generating"
    /\ pending = <<>>
    /\ phase' = "idle"
    /\ returned' = [called |-> TRUE, arch |-> request, doc |-> doc]
    /\ FieldsUnchanged
    /\ UNCHANGED <<counter, clock, calls, request, pending, doc, lookup, sized>>
    /\ UNCHANGED webVars

\* time passes between two calls
Tick ==
    /\ phase = "idle"
    /\ clock < MaxClock
    /\ clock' = clock + 1
    /\ FieldsUnchanged
    /\ UNCHANGED <<counter, phase, calls, request, pending, doc, returned, lookup, sized>>
    /\ UNCHANGED webVars

(***************************************************************************)
(* Specification Spec: one builder, or several one after the other,        *)
(* called repeatedly with single-page and multi-page architectures.        *)
(***************************************************************************)

NameA == <<"a">>
NameB == <<"b">>

\* two pages: bare resource groups holding vm a and storage account k, and a
\* region holding storage account b and x, of a type the catalog does not have;
\* both ask for a connection from a to b, and the second page has no node a
CallPages ==
    { DiagramPage(<<"p">>, <<>>, <<>>, TRUE,
                  <<ResourceGroup(<<"g">>, <<Res("vm", NameA),
                                             Res("storageAccount", <<"k">>)>>)>>,
                  <<Connection(NameA, NameB, "vpn")>>),
      DiagramPage(<<"q">>,
                  <<Region(<<"r">>,
                           <<ResourceGroup(<<"g">>, <<Res("storageAccount", NameB),
                                                      Res("bogus", <<"x">>)>>)>>,
                           <<>>)>>,
                  <<>>, FALSE, <<>>, <<Connection(NameA, NameB, "vpn")>>) }

RECURSIVE SeqsUpTo(_, _)
\* the non-empty sequences over S of length at most n
SeqsUpTo(S, n) ==
    IF n = 0 THEN {}
    ELSE LET shorter == SeqsUpTo(S, n - 1)
         IN  { <<x>> : x \in S } \cup shorter \cup { Append(t, x) : t \in shorter, x \in S }

\* the arguments of generate: each page alone as a single-page architecture, and
\* the documents of up to MaxPages pages
CallArchs ==
    { PageArch(pg) : pg \in CallPages }
    \cup { Document(<<"d">>, pages) : pages \in SeqsUpTo(CallPages, MaxPages) }

(***************************************************************************)
(* Specification SpecLayout: one generate call on a new builder, for       *)
(* architectures of many shapes.  A shape gives the numbers of children;   *)
(* the Mk operators name every node after its place, so names are distinct *)
(* unless a family says otherwise.                                         *)
(***************************************************************************)

\* n resources named tag1, tag2, ...: vms at odd places, storage accounts at even
ResList(n, tag) ==
    [i \in 1..n |-> Res(IF i % 2 = 1 THEN "vm" ELSE "storageAccount", tag \o NumChars(i))]

\* availability zones of a subnet: the resource count of each zone group
AZShapes == {<<>>} \cup SeqsUpTo({0, 1, 3}, MaxChildren)

MkAZs(counts, tag) ==
    [z \in 1..Len(counts) |->
        AZGroup(z, ResList(counts[z], tag \o <<"z">> \o NumChars(z) \o <<"r">>))]

SubnetShapes == { [res |-> n, azs |-> c] : n \in 0..3, c \in AZShapes }

FewSubnetShapes ==
    { [res |-> 0, azs |-> <<>>], [res |-> 3, azs |-> <<>>], [res |-> 1, azs |-> <<2>>] }

MkSubnet(sh, tag) == Subnet(tag, MkAZs(sh.azs, tag), ResList(sh.res, tag \o <<"r">>))

VNetShapes ==
    { [type |-> t, hasSubnets |-> h, subnets |-> <<>>] :
        t \in {"vnet", "hubVnet"}, h \in BOOLEAN }
    \cup { [type |-> t, hasSubnets |-> TRUE, subnets |-> <<sh>>] :
             t \in {"vnet", "hubVnet"}, sh \in SubnetShapes }
    \cup { [type |-> t, hasSubnets |-> TRUE, subnets |-> ss] :
             t \in {"vnet", "hubVnet"}, ss \in SeqsUpTo(FewSubnetShapes, MaxChildren) }

FewVNetShapes ==
    { [type |-> "vnet", hasSubnets |-> FALSE, subnets |-> <<>>],
      [type |-> "vnet", hasSubnets |-> TRUE, subnets |-> <<[res |-> 3, azs |-> <<>>]>>],
      [type |-> "hubVnet", hasSubnets |-> TRUE,
       subnets |-> <<[res |-> 1, azs |-> <<>>], [res |-> 0, azs |-> <<1>>]>>] }

MkVNet(sh, tag) ==
    [VNet(sh.type, tag,
          [j \in 1..Len(sh.subnets) |->
              MkSubnet(sh.subnets[j], tag \o <<"s">> \o NumChars(j))])
       EXCEPT !.hasSubnets = sh.hasSubnets]

RGShapes ==
    { [vnets |-> <<>>, others |-> n] : n \in 0..5 }
    \cup { [vnets |-> <<v>>, others |-> n] : v \in VNetShapes, n \in {0, 5} }
    \cup { [vnets |-> vs, others |-> n] :
             vs \in SeqsUpTo(FewVNetShapes, MaxChildren), n \in {0, 1, 4} }

FewRGShapes ==
    { [vnets |-> <<>>, others |-> 0], [vnets |-> <<>>, others |-> 5],
      [vnets |-> <<[type |-> "vnet", hasSubnets |-> TRUE,
                    subnets |-> <<[res |-> 3, azs |-> <<>>]>>]>>, others |-> 1] }

\* the other resources are listed before the VNets, which the builder places first
MkRG(sh, tag) ==
    ResourceGroup(tag,
        ResList(sh.others, tag \o <<"r">>)
        \o [j \in 1..Len(sh.vnets) |-> MkVNet(sh.vnets[j], tag \o <<"v">> \o NumChars(j))])

MkRGs(shs, tag) == [j \in 1..Len(shs) |-> MkRG(shs[j], tag \o <<"g">> \o NumChars(j))]

RegionShapes ==
    { [rgs |-> gs, res |-> n] :
        gs \in {<<>>} \cup SeqsUpTo(FewRGShapes, MaxChildren), n \in {0, 1, 4, 5} }

FewRegionShapes ==
    { [rgs |-> <<>>, res |-> 0],
      [rgs |-> <<[vnets |-> <<>>, others |-> 5]>>, res |-> 0],
      [rgs |-> <<[vnets |-> <<>>, others |-> 0]>>, res |-> 1] }

MkRegion(sh, tag) == Region(tag, MkRGs(sh.rgs, tag), ResList(sh.res, tag \o <<"r">>))

MkRegions(shs, tag) == [j \in 1..Len(shs) |-> MkRegion(shs[j], tag \o <<"e">> \o NumChars(j))]

\* a subscription holds resource groups or regions; the last shapes hold both
SubscriptionShapes ==
    { [regions |-> <<>>, rgs |-> <<g>>] : g \in RGShapes }
    \cup { [regions |-> <<>>, rgs |-> gs] :
             gs \in {<<>>} \cup SeqsUpTo(FewRGShapes, MaxChildren) }
    \cup { [regions |-> es, rgs |-> <<>>] : es \in SeqsUpTo(FewRegionShapes, MaxChildren) }
    \cup { [regions |-> <<e>>, rgs |-> <<g>>] : e \in FewRegionShapes, g \in FewRGShapes }

FewSubscriptionShapes ==
    { [regions |-> <<>>, rgs |-> <<>>],
      [regions |-> <<>>, rgs |-> <<[vnets |-> <<>>, others |-> 5]>>],
      [regions |-> <<[rgs |-> <<>>, res |-> 0]>>, rgs |-> <<>>] }

MkSubscription(sh, tag) ==
    Subscription(tag, MkRegions(sh.regions, tag), MkRGs(sh.rgs, tag))

MkSubscriptions(shs, tag) ==
    [j \in 1..Len(shs) |-> MkSubscription(shs[j], tag \o NumChars(j))]

\* on-premises blocks: the resource count of each block
PremisesShapes == {<<>>} \cup SeqsUpTo({0, 1, 3}, MaxChildren)

MkPremises(counts) ==
    [j \in 1..Len(counts) |->
        OnPremises(<<"o">> \o NumChars(j), ResList(counts[j], <<"o">> \o NumChars(j) \o <<"r">>))]

TitleT == <<"t">>

\* architectures that vary what the cloud containers hold
ContentArchs ==
    { Architecture(TitleT, 0, <<>>, <<MkSubscription(sh, <<"u">>)>>, <<>>, <<>>, <<>>, <<>>) :
        sh \in SubscriptionShapes }
    \cup { Architecture(TitleT, 0, <<MkRegion(sh, <<"e">>)>>, <<>>, <<>>, <<>>, <<>>, <<>>) :
             sh \in RegionShapes }
    \cup { Architecture(TitleT, 0, MkRegions(shs, <<>>), <<>>, <<>>, <<>>, <<>>, <<>>) :
             shs \in SeqsUpTo(FewRegionShapes, MaxChildren) }
    \cup { Architecture(TitleT, 0, <<>>, <<>>, MkSubscriptions(shs, <<"u">>), <<>>, <<>>, <<>>) :
             shs \in SeqsUpTo(FewSubscriptionShapes, MaxChildren) }

\* the cloud content of the architectures that vary what is around it
FewClouds ==
    { [regions |-> <<>>, subscription |-> <<>>, subscriptions |-> <<>>],
      [regions |-> <<>>, subscriptions |-> <<>>,
       subscription |-> <<MkSubscription([regions |-> <<>>,
                                          rgs |-> <<[vnets |-> <<>>, others |-> 5]>>],
                                         <<"u">>)>>],
      [subscription |-> <<>>, subscriptions |-> <<>>,
       regions |-> MkRegions(<<[rgs |-> <<[vnets |-> <<>>, others |-> 0]>>, res |-> 1],
                               [rgs |-> <<>>, res |-> 0]>>, <<>>)],
      [subscription |-> <<>>, subscriptions |-> <<>>,
       regions |-> MkRegions(<<[rgs |-> <<[vnets |-> <<>>, others |-> 0]>>, res |-> 5]>>,
                             <<>>)] }

\* architectures that vary the title block, the global resources and the
\* on-premises blocks
AroundArchs ==
    { Architecture(t, d, c.regions, c.subscription, c.subscriptions, MkPremises(o),
                   ResList(g, <<"w">>), <<>>) :
        t \in {<<>>, TitleT}, d \in {0, 100, 101}, c \in FewClouds,
        o \in PremisesShapes, g \in {0, 2} }

\* the names of the second resource of the architectures below: a name of its
\* own, the first resource's name in capitals, and the names of the resource
\* group and of the subscription
SecondNames == { <<"b">>, <<"A">>, <<"g">>, <<"s">> }

\* connections among nodes that exist (a, c, the on-premises block o) and one, z,
\* that does not
ConnectionPool ==
    { Connection(<<"a">>, <<"c">>, "vpn"), Connection(<<"a">>, <<"z">>, "peering"),
      Connection(<<"z">>, <<"a">>, "dashed"), Connection(<<"c">>, <<"a">>, ""),
      Connection(<<"o">>, <<"a">>, "expressroute") }

\* architectures that vary names and connections: subscription s, resource group g
\* with vm a and a second vm, on-premises block o with vm c
NamedArchs ==
    { Architecture(TitleT, 0, <<>>,
                   <<Subscription(<<"s">>, <<>>,
                        <<ResourceGroup(<<"g">>, <<Res("vm", <<"a">>), Res("vm", n)>>)>>)>>,
                   <<>>, <<OnPremises(<<"o">>, <<Res("vm", <<"c">>)>>)>>, <<>>, cs) :
        n \in SecondNames, cs \in SeqsUpTo(ConnectionPool, MaxConnections) }

\* resource groups to stack: at the floor, with two rows of resources, and wide
\* (a hub VNet with two subnets beside four resources)
StackRGShapes ==
    { [vnets |-> <<>>, others |-> 0], [vnets |-> <<>>, others |-> 5],
      [vnets |-> <<[type |-> "hubVnet", hasSubnets |-> TRUE,
                    subnets |-> <<[res |-> 2, azs |-> <<>>], [res |-> 2, azs |-> <<>>]>>]>>,
       others |-> 4] }

\* the connections of a stack of three named by tag: across the middle one, both
\* ways, and between neighbours
StackConnections(tag) ==
    { <<Connection(tag \o <<"1">>, tag \o <<"3">>, "")>>,
      <<Connection(tag \o <<"3">>, tag \o <<"1">>, "peering")>>,
      <<Connection(tag \o <<"1">>, tag \o <<"2">>, "")>> }

\* architectures with three containers stacked in one parent and a connection
\* between two of them: resource groups in a region, VNets in a resource group
StackArchs ==
    { Architecture(TitleT, 0, <<MkRegion([rgs |-> <<a, b, c>>, res |-> 0], <<"e">>)>>,
                   <<>>, <<>>, <<>>, <<>>, cs) :
        a \in StackRGShapes, b \in StackRGShapes, c \in StackRGShapes,
        cs \in StackConnections(<<"e", "g">>) }
    \cup { Architecture(TitleT, 0, <<>>,
                        <<MkSubscription([regions |-> <<>>,
                                          rgs |-> <<[vnets |-> <<a, b, c>>, others |-> 0]>>],
                                         <<"u">>)>>,
                        <<>>, <<>>, <<>>, cs) :
             a \in FewVNetShapes, b \in FewVNetShapes, c \in FewVNetShapes,
             cs \in StackConnections(<<"u", "g", "1", "v">>) }

\* a type of the catalog and one that is not in it
MixedTypes == { "vm", "bogus" }

\* architectures with a resource in each place a resource can sit (resource group
\* g, subnet n, availability zone 1 of n, on-premises block o, global), each of a
\* type of MixedTypes, and connections among them
MixedArchs ==
    { Architecture(TitleT, 0, <<>>,
        <<Subscription(<<"s">>, <<>>,
            <<ResourceGroup(<<"g">>,
                << Res(t[1], <<"k", "a">>),
                   VNet("vnet", <<"v">>,
                        <<Subnet(<<"n">>, <<AZGroup(1, <<Res(t[3], <<"k", "c">>)>>)>>,
                                 <<Res(t[2], <<"k", "b">>)>>)>>) >>)>>)>>,
        <<>>, <<OnPremises(<<"o">>, <<Res(t[4], <<"k", "d">>)>>)>>,
        <<Res(t[5], <<"k", "e">>)>>,
        << Connection(<<"k", "a">>, <<"k", "d">>, "vpn"),
           Connection(<<"k", "b">>, <<"k", "e">>, ""),
           Connection(<<"k", "c">>, <<"k", "a">>, "dashed") >>) :
        t \in [1..5 -> MixedTypes] }

\* identifiers the input supplies
IdA == <<"A">>
IdB == <<"B">>

\* architectures whose input supplies identifiers: resource group g with the
\* identifier A holds vm a and either a second vm, or a VNet with the identifier B
\* and a subnet holding vm b; the second vm or the subnet is named n and has the
\* identifier i (none when i is empty); on-premises block o holds vm c
SuppliedArchs ==
    { Architecture(TitleT, 0, <<>>,
        <<Subscription(<<"s">>, <<>>,
            <<[ResourceGroup(<<"g">>,
                  IF nested
                  THEN << Res("vm", <<"a">>),
                          [VNet("vnet", <<"v">>,
                                <<[Subnet(n, <<>>, <<Res("vm", <<"b">>)>>)
                                     EXCEPT !.id = i]>>)
                             EXCEPT !.id = IdB] >>
                  ELSE << Res("vm", <<"a">>), [Res("vm", n) EXCEPT !.id = i] >>)
                 EXCEPT !.id = IdA]>>)>>,
        <<>>, <<OnPremises(<<"o">>, <<Res("vm", <<"c">>)>>)>>, <<>>, cs) :
        nested \in BOOLEAN, n \in { <<"n">>, <<"g">> }, i \in { <<>>, IdA, IdB },
        cs \in { <<Connection(<<"a">>, <<"c">>, "vpn")>>,
                 <<Connection(<<"c">>, <<"b">>, "")>>,
                 <<Connection(<<"c">>, <<"v">>, ""), Connection(<<"a">>, <<"c">>, "")>> } }

\* property mappings of a resource: none, display keys with and without a value,
\* more display keys than are shown, a key with white space, and the keys id and
\* label
PropertySets ==
    { <<>>,
      <<Prop(<<"s", "k", "u">>, <<"S">>)>>,
      <<NullProp(<<"s", "k", "u">>), Prop(<<"o", "s">>, <<"L">>)>>,
      <<Prop(<<"k", "i", "n", "d">>, <<"K">>), Prop(<<"t", "i", "e", "r">>, <<"T">>),
        Prop(<<"s", "k", "u">>, <<"S">>), Prop(<<"s", "i", "z", "e">>, <<"Z">>)>>,
      <<Prop(<<"m", "y", " ", " ", "i", "d">>, <<"X">>)>>,
      <<Prop(<<"i", "d">>, <<"X">>)>>,
      <<NullProp(<<"i", "d">>)>>,
      <<Prop(<<"l", "a", "b", "e", "l">>, <<"X">>), Prop(<<"s", "k", "u">>, <<"S">>)>> }

\* architectures that vary the properties of resources: resource group g holds
\* vm a and storage account b, each with properties, and a connection joins them
PropertyArchs ==
    { Architecture(TitleT, 0, <<>>,
        <<Subscription(<<"s">>, <<>>,
            <<ResourceGroup(<<"g">>,
                << [Res("vm", <<"a">>) EXCEPT !.properties = ps],
                   [Res("storageAccount", <<"b">>) EXCEPT !.properties = qs] >>)>>)>>,
        <<>>, <<>>, <<>>, <<Connection(<<"a">>, <<"b">>, "")>>) :
        ps \in PropertySets, qs \in PropertySets }

LayoutArchs ==
    ContentArchs \cup AroundArchs \cup NamedArchs \cup StackArchs \cup MixedArchs
    \cup SuppliedArchs
(***************************************************************************)
(* Specification SpecViewer: the DiagramViewer component of the web client *)
(* and the draw.io iframe it embeds.  A result is known by the number of   *)
(* its XML.  A step is one React event handler with the render and the     *)
(* effects that follow it, one message handled by the page, or one step of *)
(* the document in the iframe.  Messages between two windows arrive in the *)
(* order they were posted.                                                 *)
(***************************************************************************)

\* no iframe is rendered
NoFrame == [mounted |-> FALSE, booted |-> FALSE, xml |-> 0]

\* an iframe whose document is still starting: not listening, no diagram in it
NewFrame == [mounted |-> TRUE, booted |-> FALSE, xml |-> 0]

\* contentWindow.postMessage of sendXml and of handleExport
LoadAction(xml) == [action |-> "load", xml |-> xml, format |-> "none"]

ExportAction(format) == [action |-> "export", xml |-> 0, format |-> format]

\* the events draw.io posts to the page
FrameEvent(event, xml) == [event |-> event, xml |-> xml]

\* sendXml: posts the load action when the iframe is there
sendXml(fr, queue, xml) == IF fr.mounted THEN Append(queue, LoadAction(xml)) ELSE queue

\* the parent renders DiagramViewer with a new result, whose XML differs from
\* the one before; the effect on result.xml runs.  The first result renders the
\* iframe.
NewResult(v) ==
    /\ v # result
    /\ Len(toFrame) < MaxInFlight
    /\ result' = v
    /\ frame' = IF result = 0 THEN NewFrame ELSE frame
    /\ pendingXml' = v
    /\ isLoaded' = FALSE
    /\ toFrame' = IF iframeReady
                  THEN sendXml(IF result = 0 THEN NewFrame ELSE frame, toFrame, v)
                  ELSE toFrame
    /\ UNCHANGED <<showXml, exporting, iframeReady, toParent>>
    /\ UNCHANGED <<engineVars, historyVars, formVars>>

\* the document in the iframe has started: draw.io posts init (the configure
\* exchange before it, which changes nothing in the component, is left out)
FrameInit ==
    /\ frame.mounted
    /\ ~frame.booted
    /\ Len(toParent) < MaxInFlight
    /\ frame' = [frame EXCEPT !.booted = TRUE]
    /\ toParent' = Append(toParent, FrameEvent("init", 0))
    /\ UNCHANGED <<result, isLoaded, showXml, exporting, iframeReady, pendingXml, toFrame>>
    /\ UNCHANGED <<engineVars, historyVars, formVars>>

\* the iframe's window takes the next message: a document that has not started
\* hears nothing; draw.io loads the XML and posts load, or exports and posts export
FrameReceive ==
    /\ toFrame # <<>>
    /\ Len(toParent) < MaxInFlight
    /\ toFrame' = Tail(toFrame)
    /\ frame' = IF frame.booted /\ Head(toFrame).action = "load"
                THEN [frame EXCEPT !.xml = Head(toFrame).xml]
                ELSE frame
    /\ toParent' = IF ~frame.booted THEN toParent
                   ELSE IF Head(toFrame).action = "load"
                   THEN Append(toParent, FrameEvent("load", Head(toFrame).xml))
                   ELSE Append(toParent, FrameEvent("export", frame.xml))
    /\ UNCHANGED <<result, isLoaded, showXml, exporting, iframeReady, pendingXml>>
    /\ UNCHANGED <<engineVars, historyVars, formVars>>

\* handleMessage, for the next message of the page's window
handleMessage ==
    /\ toParent # <<>>
    /\ Len(toFrame) < MaxInFlight
    /\ toParent' = Tail(toParent)
    /\ iframeReady' = (iframeReady \/ Head(toParent).event = "init")
    /\ toFrame' = IF Head(toParent).event = "init" /\ pendingXml # 0
                  THEN sendXml(frame, toFrame, pendingXml)
                  ELSE toFrame
    /\ isLoaded' = (isLoaded \/ Head(toParent).event = "load")
    /\ exporting' = IF Head(toParent).event = "export" THEN "none" ELSE exporting
    /\ UNCHANGED <<result, showXml, pendingXml, frame>>
    /\ UNCHANGED <<engineVars, historyVars, formVars>>

\* the XML/Diagram button: the XML view replaces the iframe, the diagram view
\* renders a new one
ToggleXml ==
    /\ result # 0
    /\ showXml' = ~showXml
    /\ frame' = IF showXml THEN NewFrame ELSE NoFrame
    /\ toFrame' = <<>>
    /\ UNCHANGED <<result, isLoaded, exporting, iframeReady, pendingXml, toParent>>
    /\ UNCHANGED <<engineVars, historyVars, formVars>>

\* the Retry button, which is shown while the diagram view is loading: the
\* iframe's document is loaded anew
Retry ==
    /\ result # 0
    /\ ~showXml
    /\ ~isLoaded
    /\ iframeReady' = FALSE
    /\ isLoaded' = FALSE
    /\ frame' = NewFrame
    /\ toFrame' = <<>>
    /\ UNCHANGED <<result, showXml, exporting, pendingXml, toParent>>
    /\ UNCHANGED <<engineVars, historyVars, formVars>>

\* the PNG or SVG button is enabled
ExportEnabled(format) == result # 0 /\ isLoaded /\ exporting # format

\* a click on an enabled export button: handleExport, which posts when there is
\* an iframe
handleExport(format) ==
    /\ ExportEnabled(format)
    /\ frame.mounted
    /\ isLoaded
    /\ Len(toFrame) < MaxInFlight
    /\ exporting' = format
    /\ toFrame' = Append(toFrame, ExportAction(format))
    /\ UNCHANGED <<result, isLoaded, showXml, iframeReady, pendingXml, frame, toParent>>
    /\ UNCHANGED <<engineVars, historyVars, formVars>>

\* handleExport's safety timeout
ExportTimeout ==
    /\ exporting # "none"
    /\ exporting' = "none"
    /\ UNCHANGED <<result, isLoaded, showXml, iframeReady, pendingXml, frame, toFrame,
                   toParent>>
    /\ UNCHANGED <<engineVars, historyVars, formVars>>

(***************************************************************************)
(* Specification SpecHistory: the prompt history service of the web        *)
(* client, which keeps the generated diagrams in localStorage.  An entry   *)
(* is known by its id; crypto.randomUUID() is modelled by the number of    *)
(* the save, counted over all sessions, which is as unique.  A session     *)
(* starts on the history earlier sessions left: one entry short of full.   *)
(* A setItem call either stores the value or throws and leaves the item    *)
(* as it was, as the browser decides from the room the origin has left.    *)
(***************************************************************************)

MAX_ENTRIES == 50

HistoryEntry(n) == [id |-> n]

\* the history that n saves of earlier sessions left, newest first
Persisted(n) == [k \in 1..n |-> HistoryEntry(n + 1 - k)]

\* the id of the entry the next saveToHistory call makes
NewId == MAX_ENTRIES - 1 + saves + 1

\* JSON.parse of the item, or [] when there is none
Parsed(item) == IF item = <<>> THEN <<>> ELSE item[1]

getHistory == Parsed(storage)

\* history.length = n, for n at most the length
Shortened(history, n) == SubSeq(history, 1, n)

\* saveToHistory: the array after unshift and the eviction beyond MAX_ENTRIES
Unshifted(newEntry) ==
    IF Len(<<newEntry>> \o getHistory) > MAX_ENTRIES
    THEN Shortened(<<newEntry>> \o getHistory, MAX_ENTRIES)
    ELSE <<newEntry>> \o getHistory

\* saveToHistory; stored says that the first setItem call stored the array,
\* retried that the one in the catch block did (when neither, the call throws)
saveToHistory(stored, retried) ==
    /\ saves < MaxSaves
    /\ saves' = saves + 1
    /\ storage' = IF stored THEN <<Unshifted(HistoryEntry(NewId))>>
                  ELSE IF retried
                  THEN <<Shortened(Unshifted(HistoryEntry(NewId)),
                                   Len(Unshifted(HistoryEntry(NewId))) \div 2)>>
                  ELSE storage
    /\ UNCHANGED <<engineVars, viewerVars, formVars>>

deleteEntry(id) ==
    /\ storage' = <<SelectSeq(getHistory, LAMBDA e : e.id # id)>>
    /\ UNCHANGED saves
    /\ UNCHANGED <<engineVars, viewerVars, formVars>>

clearHistory ==
    /\ storage' = <<>>
    /\ UNCHANGED saves
    /\ UNCHANGED <<engineVars, viewerVars, formVars>>

(***************************************************************************)
(* The GeneratePanel component of the web client.  A step is one React     *)
(* event handler, or the part of handleGenerate between two awaits.  Each  *)
(* call of handleGenerate is an attempt; attempts[k] says where the k-th   *)
(* stands, how often it has called onGenerated and with which messages it  *)
(* has called onError (the clearing call onError('') apart).  Texts are    *)
(* "" or a token.                                                          *)
(***************************************************************************)

\* prompt.trim(): a prompt of white space only trims to nothing
Trimmed(text) == IF text = " " THEN "" ELSE text

\* canGenerate = prompt.trim().length > 0 && config
canGenerate == Trimmed(prompt) # "" /\ config # ""

NewAttempt(text) ==
    [pc |-> "stream", currentPrompt |-> text, read |-> 0, generated |-> 0,
     errors |-> <<>>]

\* the attempts still between handleGenerate's first await and its finally
Live == { k \in 1..Len(attempts) : attempts[k].pc # "ended" }

\* handleGenerate up to its first await, the fetch of /api/generate/stream
handleGenerate ==
    /\ canGenerate
    /\ Len(attempts) < MaxAttempts
    /\ isGenerating' = TRUE
    /\ generationStatus' = "Connecting..."
    /\ lastError' = ""
    /\ abortRef' = Len(attempts) + 1
    /\ attempts' = Append(attempts, NewAttempt(prompt))
    /\ UNCHANGED <<prompt, conversation>>

\* the generate button: disabled={!canGenerate || isGenerating}
ClickGenerate ==
    /\ ~(~canGenerate \/ isGenerating)
    /\ handleGenerate
    /\ UNCHANGED <<engineVars, historyVars, viewerVars, configVars>>

\* the textarea's onKeyDown with Enter and the Ctrl or Cmd key
KeyDownEnter ==
    /\ handleGenerate
    /\ UNCHANGED <<engineVars, historyVars, viewerVars, configVars>>

\* the textarea's onChange and the example chips
SetPrompt(text) ==
    /\ prompt # text
    /\ prompt' = text
    /\ UNCHANGED <<isGenerating, generationStatus, conversation, abortRef, attempts,
                   lastError>>
    /\ UNCHANGED <<engineVars, historyVars, viewerVars, configVars>>

\* the config prop, as the parent hands it down
ConfigChosen ==
    /\ config = ""
    /\ config' = "d1"
    /\ UNCHANGED <<selectedSub, resourceList, selectedResource, deployments,
                   selectedDeployment, loading, error, pendingResources,
                   pendingDeployments, subscriptionList>>
    /\ UNCHANGED <<engineVars, historyVars, viewerVars, panelVars>>

\* finishGeneration, and what handleGenerate does after it: the stream loop goes
\* on (ends FALSE), every other caller reaches finally
Finished(k, ends) ==
    /\ conversation' = conversation + 2
    /\ prompt' = ""
    /\ attempts' = [attempts EXCEPT ![k].generated = @ + 1,
                                    ![k].pc = IF ends THEN "ended" ELSE @,
                                    ![k].read = IF ends THEN @ ELSE @ + 1]
    /\ isGenerating' = IF ends THEN FALSE ELSE isGenerating
    /\ generationStatus' = IF ends THEN "" ELSE generationStatus
    /\ UNCHANGED <<abortRef, lastError>>

\* err.message || 'Generation failed'
MessageOf(message) == IF message = "" THEN "Generation failed" ELSE message

\* a throw inside try: the catch calls onError, finally clears the flag (no code
\* calls abort, so no error is an AbortError)
Failed(k, message) ==
    /\ attempts' = [attempts EXCEPT ![k].errors = Append(@, MessageOf(message)),
                                    ![k].pc = "ended"]
    /\ lastError' = MessageOf(message)
    /\ isGenerating' = FALSE
    /\ generationStatus' = ""
    /\ UNCHANGED <<prompt, conversation, abortRef>>

Messages == {"", "e"}

FetchOutcomes == {"rejected", "notFound", "failed", "events", "json"}

\* the first fetch settles, or the fetch of /api/generate that follows a rejected
\* first one: rejected, 404, another status that is not ok, ok with an event
\* stream, ok with JSON
FetchSettled(k, outcome, message) ==
    /\ k \in 1..Len(attempts)
    /\ attempts[k].pc \in {"stream", "standard"}
    /\ CASE outcome = "rejected" /\ attempts[k].pc = "stream" ->
              /\ message = ""
              /\ attempts' = [attempts EXCEPT ![k].pc = "standard"]
              /\ UNCHANGED <<prompt, isGenerating, generationStatus, conversation,
                             abortRef, lastError>>
         [] outcome = "notFound" ->
              /\ message = ""
              /\ attempts' = [attempts EXCEPT ![k].pc = "fallback"]
              /\ generationStatus' = "Generating architecture..."
              /\ UNCHANGED <<prompt, isGenerating, conversation, abortRef, lastError>>
         [] outcome = "events" ->
              /\ message = ""
              /\ attempts' = [attempts EXCEPT ![k].pc = "reading"]
              /\ UNCHANGED <<prompt, isGenerating, generationStatus, conversation,
                             abortRef, lastError>>
         [] outcome = "json" -> message = "" /\ Finished(k, TRUE)
         [] OTHER -> Failed(k, message)
    /\ UNCHANGED <<engineVars, historyVars, viewerVars, configVars>>

\* the fetch of /api/generate after a 404 settles: rejected or not ok, or ok
FallbackSettled(k, outcome, message) ==
    /\ k \in 1..Len(attempts)
    /\ attempts[k].pc = "fallback"
    /\ IF outcome = "json" THEN message = "" /\ Finished(k, TRUE) ELSE Failed(k, message)
    /\ UNCHANGED <<engineVars, historyVars, viewerVars, configVars>>

\* an event of the stream: its name, whether its data line parses, and the text
\* in the data (data.error)
StreamEvents ==
    { [event |-> e, parses |-> p, text |-> m] :
        e \in {"status", "progress", "error", "result"}, p \in BOOLEAN, m \in Messages }

\* reader.read() returns an event line and its data line
ReadChunk(k, ev) ==
    /\ k \in 1..Len(attempts)
    /\ attempts[k].pc = "reading"
    /\ attempts[k].read < MaxEvents
    /\ CASE ~ev.parses /\ ev.event = "error" -> ev.text = "e" /\ Failed(k, ev.text)
         [] ~ev.parses /\ ev.event # "error" ->
              /\ ev.text = ""
              /\ attempts' = [attempts EXCEPT ![k].read = @ + 1]
              /\ UNCHANGED <<prompt, isGenerating, generationStatus, conversation,
                             abortRef, lastError>>
         [] ev.parses /\ ev.event = "error" -> Failed(k, ev.text)
         [] ev.parses /\ ev.event = "result" -> ev.text = "" /\ Finished(k, FALSE)
         [] OTHER ->
              /\ ev.text = ""
              /\ attempts' = [attempts EXCEPT ![k].read = @ + 1]
              /\ generationStatus' = ev.event
              /\ UNCHANGED <<prompt, isGenerating, conversation, abortRef, lastError>>
    /\ UNCHANGED <<engineVars, historyVars, viewerVars, configVars>>

\* reader.read() returns done: the loop breaks and finally runs
StreamDone(k) ==
    /\ k \in 1..Len(attempts)
    /\ attempts[k].pc = "reading"
    /\ attempts' = [attempts EXCEPT ![k].pc = "ended"]
    /\ isGenerating' = FALSE
    /\ generationStatus' = ""
    /\ UNCHANGED <<prompt, conversation, abortRef, lastError>>
    /\ UNCHANGED <<engineVars, historyVars, viewerVars, configVars>>

(***************************************************************************)
(* The ConfigPanel component of the web client and the discovery requests  *)
(* it sends.  A step is one event handler with the renders and the effects *)
(* that follow it, or one response with the same.  The requests that have  *)
(* no response yet are counted by what they ask for; any of them may be    *)
(* answered next.  Names are texts, "" for none.                           *)
(***************************************************************************)

Subs == {"s1", "s2"}

ResourceNames == {"r1", "r2"}

\* what the discovery service returns for a subscription and for a resource
ResourcesOf(sub) == IF sub = "s1" THEN <<"r1">> ELSE <<"r2">>

DeploymentsOf(resource) == IF resource = "r1" THEN <<"d1">> ELSE <<>>

\* the component's state and the parent's config as one record
Panel ==
    [selectedSub |-> selectedSub, resourceList |-> resourceList,
     selectedResource |-> selectedResource, deployments |-> deployments,
     selectedDeployment |-> selectedDeployment, loading |-> loading, error |-> error,
     pendingResources |-> pendingResources, pendingDeployments |-> pendingDeployments,
     config |-> config, subscriptionList |-> subscriptionList]

\* the state after a step is p
ConfigTo(p) ==
    /\ \A s \in Subs : p.pendingResources[s] <= MaxPending
    /\ \A r \in ResourceNames : p.pendingDeployments[r] <= MaxPending
    /\ selectedSub' = p.selectedSub
    /\ resourceList' = p.resourceList
    /\ selectedResource' = p.selectedResource
    /\ deployments' = p.deployments
    /\ selectedDeployment' = p.selectedDeployment
    /\ loading' = p.loading
    /\ error' = p.error
    /\ pendingResources' = p.pendingResources
    /\ pendingDeployments' = p.pendingDeployments
    /\ config' = p.config
    /\ subscriptionList' = p.subscriptionList
    /\ UNCHANGED <<engineVars, historyVars, viewerVars, panelVars>>

\* the effect on [selectedSub]: r is the render it closes over, p the state its
\* setters have built so far
ResourcesEffect(p, r) ==
    IF r.selectedSub = "" THEN [p EXCEPT !.resourceList = <<>>]
    ELSE [p EXCEPT !.loading = "Discovering Azure OpenAI resources...",
                   !.error = "",
                   !.selectedResource = "",
                   !.deployments = <<>>,
                   !.selectedDeployment = "",
                   !.config = "",
                   !.pendingResources[r.selectedSub] = @ + 1]

\* resources.find((r) => r.name === selectedResource) finds one
Found(list, name) == \E k \in 1..Len(list) : list[k] = name

\* the effect on [selectedResource, resources, selectedSub]
DeploymentsEffect(p, r) ==
    IF r.selectedResource = "" THEN [p EXCEPT !.deployments = <<>>]
    ELSE IF ~Found(r.resourceList, r.selectedResource) THEN p
    ELSE [p EXCEPT !.loading = "Loading model deployments...",
                   !.error = "",
                   !.selectedDeployment = "",
                   !.config = "",
                   !.pendingDeployments[r.selectedResource] = @ + 1]

\* the render after the effects of render r have left p: the deployments effect
\* runs once more when the selected resource changed or setResources was called
Rerendered(p, r, listSet) ==
    IF p.selectedResource # r.selectedResource \/ listSet THEN DeploymentsEffect(p, p)
    ELSE p

\* listSubscriptions resolves
SubscriptionsArrive ==
    /\ subscriptionList = <<>>
    /\ ConfigTo([Panel EXCEPT !.subscriptionList = <<"s1", "s2">>, !.loading = ""])

\* the subscription select's onChange: both effects see the new subscription and
\* the resource selected before
SelectSub(sub) ==
    /\ subscriptionList # <<>>
    /\ sub # selectedSub
    /\ ConfigTo(Rerendered(
           DeploymentsEffect(ResourcesEffect([Panel EXCEPT !.selectedSub = sub],
                                             [Panel EXCEPT !.selectedSub = sub]),
                             [Panel EXCEPT !.selectedSub = sub]),
           [Panel EXCEPT !.selectedSub = sub], sub = ""))

\* the resource select's onChange
SelectResource(name) ==
    /\ resourceList # <<>>
    /\ name # selectedResource
    /\ name = "" \/ Found(resourceList, name)
    /\ ConfigTo(DeploymentsEffect([Panel EXCEPT !.selectedResource = name],
                                  [Panel EXCEPT !.selectedResource = name]))

\* the state after setResources(res) and setLoading(''), with the error of an
\* empty list
Listed(sub) ==
    [Panel EXCEPT !.pendingResources[sub] = @ - 1,
                  !.resourceList = ResourcesOf(sub),
                  !.loading = "",
                  !.error = IF ResourcesOf(sub) = <<>>
                            THEN "No Azure OpenAI resources found in this subscription."
                            ELSE @]

\* listOpenAIResources(sub) resolves: the list of sub is shown, whichever
\* subscription is selected by now, and the deployments effect runs on it
ResourcesArrive(sub) ==
    /\ pendingResources[sub] > 0
    /\ ConfigTo(DeploymentsEffect(Listed(sub), Listed(sub)))

\* listOpenAIResources(sub) rejects
ResourcesFail(sub) ==
    /\ pendingResources[sub] > 0
    /\ ConfigTo([Panel EXCEPT !.pendingResources[sub] = @ - 1,
                              !.error = "Failed to load resources",
                              !.loading = ""])

\* listDeployments for the resource resolves
DeploymentsArrive(name) ==
    /\ pendingDeployments[name] > 0
    /\ ConfigTo([Panel EXCEPT !.pendingDeployments[name] = @ - 1,
                              !.deployments = DeploymentsOf(name),
                              !.loading = "",
                              !.error = IF DeploymentsOf(name) = <<>>
                                        THEN "No model deployments found."
                                        ELSE @])

\* listDeployments for the resource rejects
DeploymentsFail(name) ==
    /\ pendingDeployments[name] > 0
    /\ ConfigTo([Panel EXCEPT !.pendingDeployments[name] = @ - 1,
                              !.error = "Failed to load deployments",
                              !.loading = ""])

\* the deployment select's onChange
handleDeploymentChange(deploymentName) ==
    /\ deployments # <<>>
    /\ deploymentName # selectedDeployment
    /\ deploymentName = "" \/ Found(deployments, deploymentName)
    /\ ConfigTo([Panel EXCEPT
           !.selectedDeployment = deploymentName,
           !.config = IF deploymentName = "" THEN ""
                      ELSE IF Found(resourceList, selectedResource) THEN deploymentName
                      ELSE @])

\* the ids deleteEntry is called with: the oldest entry, one that is among the
\* newer half, and the first that is saved in this session
DeleteIds == { 1, MAX_ENTRIES - 2, MAX_ENTRIES }

Init ==
    /\ cellMap = NewBuilder.cellMap
    /\ idCounter = NewBuilder.idCounter
    /\ usedResourceTypes = NewBuilder.usedResourceTypes
    /\ usedConnectionStyles = NewBuilder.usedConnectionStyles
    /\ containerAbsBounds = NewBuilder.containerAbsBounds
    /\ counter = 0
    /\ clock = 0
    /\ phase = "idle"
    /\ calls = 0
    /\ request = NoArch
    /\ pending = <<>>
    /\ doc = NoDoc
    /\ returned = NoResult
    /\ lookup = NoLookup
    /\ sized = NoSized
    /\ storage = <<Persisted(MAX_ENTRIES - 1)>>
    /\ saves = 0
    /\ result = 0
    /\ isLoaded = FALSE
    /\ showXml = FALSE
    /\ exporting = "none"
    /\ iframeReady = FALSE
    /\ pendingXml = 0
    /\ frame = NoFrame
    /\ toFrame = <<>>
    /\ toParent = <<>>
    /\ prompt = ""
    /\ isGenerating = FALSE
    /\ generationStatus = ""
    /\ conversation = 0
    /\ abortRef = 0
    /\ attempts = <<>>
    /\ lastError = ""
    /\ selectedSub = ""
    /\ resourceList = <<>>
    /\ selectedResource = ""
    /\ deployments = <<>>
    /\ selectedDeployment = ""
    /\ loading = "Loading subscriptions..."
    /\ error = ""
    /\ pendingResources = [s \in Subs |-> 0]
    /\ pendingDeployments = [r \in ResourceNames |-> 0]
    /\ config = ""
    /\ subscriptionList = <<>>

Next ==
    \/ \E a \in CallArchs : Generate(a, MaxCalls)
    \/ GeneratePage
    \/ Return
    \/ Tick
    \/ Construct

Spec == Init /\ [][Next]_vars

NextLayout ==
    \/ \E a \in LayoutArchs : Generate(a, 1)
    \/ GeneratePage
    \/ Return

SpecLayout == Init /\ [][NextLayout]_vars

\* one call whose resources carry properties
NextProperties ==
    \/ \E a \in PropertyArchs : Generate(a, 1)
    \/ GeneratePage
    \/ Return

SpecProperties == Init /\ [][NextProperties]_vars

\* the generate panel: the user types, clicks and presses keys while requests
\* settle
NextPanel ==
    \/ ConfigChosen
    \/ \E text \in {"", " ", "p"} : SetPrompt(text)
    \/ ClickGenerate
    \/ KeyDownEnter
    \/ \E k \in 1..MaxAttempts, o \in FetchOutcomes, m \in Messages : FetchSettled(k, o, m)
    \/ \E k \in 1..MaxAttempts, o \in {"failed", "json"}, m \in Messages :
          FallbackSettled(k, o, m)
    \/ \E k \in 1..MaxAttempts, ev \in StreamEvents : ReadChunk(k, ev)
    \/ \E k \in 1..MaxAttempts : StreamDone(k)

SpecPanel == Init /\ [][NextPanel]_vars

\* the configuration panel: the user selects while responses arrive in any order
NextConfig ==
    \/ SubscriptionsArrive
    \/ \E sub \in Subs \cup {""} : SelectSub(sub)
    \/ \E name \in ResourceNames \cup {""} : SelectResource(name)
    \/ \E sub \in Subs : ResourcesArrive(sub)
    \/ \E sub \in Subs : ResourcesFail(sub)
    \/ \E name \in ResourceNames : DeploymentsArrive(name)
    \/ \E name \in ResourceNames : DeploymentsFail(name)
    \/ \E d \in {"", "d1"} : handleDeploymentChange(d)

SpecConfig == Init /\ [][NextConfig]_vars

(***************************************************************************)
(* Specification SpecFind: names are registered, as the builders register  *)
(* every node they place, and then one name is looked up as               *)
(* buildConnections looks up an endpoint.                                  *)
(***************************************************************************)

\* the registered names and the endpoint names: equal, equal ignoring case, one
\* inside the other, and unrelated
FindNames ==
    { <<"a">>, <<"A">>, <<"a", "b">>, <<"A", "B">>, <<"b">>, <<"c">> }

\* this.cellMap.set(name, { id, parentId, position }) with a new identifier
RegisterCell(name) ==
    /\ lookup = NoLookup
    /\ idCounter < MaxEntries
    /\ cellMap' = Register(Builder, name, nextId(Builder), PageRoot,
                           [x |-> idCounter, y |-> 0]).cellMap
    /\ idCounter' = idCounter + 1
    /\ UNCHANGED <<usedResourceTypes, usedConnectionStyles, containerAbsBounds, counter,
                   clock, phase, calls, request, pending, doc, returned, lookup, sized>>
    /\ UNCHANGED webVars

\* this.findCell(name)
Lookup(name) ==
    /\ lookup = NoLookup
    /\ lookup' = [name |-> name, result |-> findCell(cellMap, name)]
    /\ FieldsUnchanged
    /\ UNCHANGED <<counter, clock, phase, calls, request, pending, doc, returned, sized>>
    /\ UNCHANGED webVars

NextFind ==
    \/ \E name \in FindNames : RegisterCell(name)
    \/ \E name \in FindNames : Lookup(name)

SpecFind == Init /\ [][NextFind]_vars

(***************************************************************************)
(* Specification SpecSize: a container is measured, gains a child, and is  *)
(* measured again.                                                         *)
(***************************************************************************)

\* the computed size of a container of a kind
SizeOf(kind, node) ==
    CASE kind = "subscription" ->
            [width |-> calculateSubscriptionWidth(node),
             height |-> calculateSubscriptionHeight(node)]
      [] kind = "region" ->
            [width |-> calculateRegionWidth(node), height |-> calculateRegionHeight(node)]
      [] kind = "resourceGroup" ->
            [width |-> calculateRGWidth(node), height |-> calculateRGHeight(node)]
      [] kind = "vnet" ->
            [width |-> calculateVNetWidth(node), height |-> calculateVNetHeight(node)]
      [] kind = "subnet" ->
            [width |-> calculateSubnetWidth(node), height |-> calculateSubnetHeight(node)]
      [] kind = "availabilityZone" ->
            [width |-> azWidth(node), height |-> azHeight(node)]
      [] OTHER ->
            [width |-> onPremWidth(node), height |-> onPremHeight(node)]

\* the containers before they gain a child: every kind, empty
EmptyContainers ==
    { [kind |-> "subscription", node |-> Subscription(<<"s">>, <<>>, <<>>)],
      [kind |-> "region", node |-> Region(<<"e">>, <<>>, <<>>)],
      [kind |-> "resourceGroup", node |-> ResourceGroup(<<"g">>, <<>>)],
      [kind |-> "vnet", node |-> VNet("vnet", <<"v">>, <<>>)],
      [kind |-> "vnet", node |-> [VNet("vnet", <<"v">>, <<>>) EXCEPT !.hasSubnets = FALSE]],
      [kind |-> "vnet", node |-> VNet("hubVnet", <<"v">>, <<>>)],
      [kind |-> "vnet", node |-> [VNet("hubVnet", <<"v">>, <<>>) EXCEPT !.hasSubnets = FALSE]],
      [kind |-> "subnet", node |-> Subnet(<<"n">>, <<>>, <<>>)],
      [kind |-> "availabilityZone", node |-> AZGroup(1, <<>>)],
      [kind |-> "onPremises", node |-> OnPremises(<<"o">>, <<>>)] }

\* the resources a container can gain: of a known type and of an unknown one
SomeResources == { Res("vm", <<"x">>), Res("bogus", <<"y">>) }

\* the subnets a VNet can gain
SomeSubnets == { MkSubnet(sh, <<"n">>) : sh \in FewSubnetShapes }

\* the VNets a resource group can gain
SomeVNets ==
    { MkVNet(sh, <<"v">>) : sh \in FewVNetShapes }
    \cup { [VNet("hubVnet", <<"h">>, <<>>) EXCEPT !.hasSubnets = FALSE] }

\* the children a container of a kind can gain: the list that gains it and the child
Children(kind) ==
    CASE kind = "subscription" ->
            { [list |-> "regions", child |-> MkRegion(sh, <<"e">>)] : sh \in FewRegionShapes }
            \cup { [list |-> "resourceGroups", child |-> MkRG(sh, <<"g">>)] :
                     sh \in FewRGShapes }
      [] kind = "region" ->
            { [list |-> "resourceGroups", child |-> MkRG(sh, <<"g">>)] : sh \in FewRGShapes }
      [] kind = "resourceGroup" ->
            { [list |-> "resources", child |-> r] : r \in SomeResources \cup SomeVNets }
      [] kind = "vnet" ->
            { [list |-> "subnets", child |-> sn] : sn \in SomeSubnets }
      [] kind = "subnet" ->
            { [list |-> "resources", child |-> r] : r \in SomeResources }
            \cup { [list |-> "availabilityZones", child |-> AZGroup(1, ResList(n, <<"z">>))] :
                     n \in {0, 3} }
      [] OTHER ->
            { [list |-> "resources", child |-> r] : r \in SomeResources }

AllChildren == UNION { Children(c.kind) : c \in EmptyContainers }

\* the container with the child at the end of the list; a VNet that gains a
\* subnet has a subnets list from then on
WithChild(node, c) ==
    LET grown == [node EXCEPT ![c.list] = Append(@, c.child)]
    IN  IF c.list = "subnets" THEN [grown EXCEPT !.hasSubnets = TRUE] ELSE grown

SizeUnchanged ==
    /\ FieldsUnchanged
    /\ UNCHANGED <<counter, clock, phase, calls, request, pending, doc, returned, lookup>>
    /\ UNCHANGED webVars

\* the calculate functions, called for a container
Measure(c) ==
    /\ sized = NoSized
    /\ sized' = [kind |-> c.kind, node |-> c.node, size |-> SizeOf(c.kind, c.node),
                 grown |-> 0, before |-> SizeOf(c.kind, c.node)]
    /\ SizeUnchanged

\* the calculate functions, called for the container with one child more
AddChild(c) ==
    /\ sized # NoSized
    /\ c \in Children(sized.kind)
    /\ sized.grown < MaxGrowth
    /\ sized' = [kind |-> sized.kind, node |-> WithChild(sized.node, c),
                 size |-> SizeOf(sized.kind, WithChild(sized.node, c)),
                 grown |-> sized.grown + 1, before |-> sized.size]
    /\ SizeUnchanged

NextSize ==
    \/ \E c \in EmptyContainers : Measure(c)
    \/ \E c \in AllChildren : AddChild(c)

SpecSize == Init /\ [][NextSize]_vars

NextHistory ==
    \/ \E stored \in BOOLEAN, retried \in BOOLEAN : saveToHistory(stored, retried)
    \/ \E id \in DeleteIds : deleteEntry(id)
    \/ clearHistory

SpecHistory == Init /\ [][NextHistory]_vars

NextViewer ==
    \/ \E v \in 1..MaxResults : NewResult(v)
    \/ FrameInit
    \/ FrameReceive
    \/ handleMessage
    \/ ToggleXml
    \/ Retry
    \/ \E format \in {"png", "svg"} : handleExport(format)
    \/ ExportTimeout

SpecViewer == Init /\ [][NextViewer]_vars

(***************************************************************************)
(* Properties of generate over calls and pages, under Spec                 *)
(***************************************************************************)

\* the elements of a sequence
Range(seq) == { seq[i] : i \in 1..Len(seq) }

\* what generate returns for a document: the mxfile's modified attribute and, per
\* diagram element, its id, its name, the page size and its cells as emitted
Output(d) ==
    [modified |-> d.modified,
     pages |-> [i \in 1..Len(d.pages) |->
                  [id |-> d.pages[i].id, name |-> d.pages[i].name,
                   pageWidth |-> d.pages[i].pageWidth,
                   pageHeight |-> d.pages[i].pageHeight,
                   cells |-> [k \in 1..Len(d.pages[i].cells) |->
                                [d.pages[i].cells[k] EXCEPT !.obstructing = <<>>]]]]]

\* a generate call is about to return a document for the architecture of the
\* call that returned before it
SameAgain ==
    /\ phase = "generating"
    /\ pending = <<>>
    /\ returned.called
    /\ returned.arch = request

\* C2 (determinism): a call of generate with the architecture of the call before
\* it, on the same builder or on a new one and at whatever time, returns the
\* document the call before returned, mxfile and diagram attributes and cell
\* identifiers included.
C2_Determinism == SameAgain => Output(doc) = Output(returned.doc)

\* the cells of a document that were issued an identifier, in the order they are
\* emitted, page after page
RECURSIVE IssuedCells(_, _)
IssuedCells(pages, i) ==
    IF i > Len(pages) THEN <<>>
    ELSE SelectSeq(pages[i].cells, LAMBDA c : c.kind # "base") \o IssuedCells(pages, i + 1)

\* the digit a character stands for
DigitOf(ch) == CHOOSE d \in 0..9 : DigitChar(d) = ch

RECURSIVE NumberOf(_)
\* the number a sequence of digits stands for
NumberOf(chars) ==
    IF chars = <<>> THEN 0
    ELSE 10 * NumberOf(SubSeq(chars, 1, Len(chars) - 1)) + DigitOf(chars[Len(chars)])

\* the n of an identifier cell-n
CellNumber(id) == NumberOf(SubSeq(id, 6, Len(id)))

\* C3 (identifier uniqueness): over the whole document of one generate call the
\* identifiers issued to cells increase in the order they are issued, so that no
\* two cells, on the same page or on two pages, carry the same identifier.
C3_IdentifiersUnique ==
    LET issued == IssuedCells(doc.pages, 1)
    IN  \A u, v \in 1..Len(issued) :
            u < v => CellNumber(issued[u].id) < CellNumber(issued[v].id)

\* C4 (page independence): the cells emitted for a page are those a new builder
\* emits for that page alone, whatever pages or calls ran before on the builder,
\* and the registry, the bounds cache and the sets of used resource types and
\* connection styles a page leaves are those of that page alone.
C4_PageIndependence ==
    /\ \A i \in 1..Len(doc.pages) :
          doc.pages[i].cells = generatePage(NewBuilder, doc.pages[i].arch).cells
    /\ (phase = "generating" /\ doc.pages # <<>>) =>
          LET alone == generatePage(NewBuilder, doc.pages[Len(doc.pages)].arch)
          IN  /\ cellMap = alone.cellMap
              /\ containerAbsBounds = alone.containerAbsBounds
              /\ usedResourceTypes = alone.usedResourceTypes
              /\ usedConnectionStyles = alone.usedConnectionStyles

\* a second page asks for a connection from a, a node placed on the first page
\* only, to its own node b, and no edge is emitted for it
C4_Witness ==
    /\ Len(doc.pages) = 2
    /\ \E c \in Range(doc.pages[1].cells) : c.kind = "resource" /\ c.value = NameA
    /\ \E c \in Range(doc.pages[2].cells) : c.kind = "resource" /\ c.value = NameB
    /\ \A c \in Range(doc.pages[2].cells) : ~(c.kind = "resource" /\ c.value = NameA)
    /\ \E k \in 1..Len(doc.pages[2].arch.connections) :
          /\ doc.pages[2].arch.connections[k].from = NameA
          /\ doc.pages[2].arch.connections[k].to = NameB
    /\ \A c \in Range(doc.pages[2].cells) : c.kind # "edge"

(***************************************************************************)
(* Properties of the Size Estimator, under SpecSize                        *)
(***************************************************************************)

\* the container measured last has gained a child, and did not shrink by it
NotShrunk ==
    /\ sized.size.width >= sized.before.width
    /\ sized.size.height >= sized.before.height

\* C5 (resource-group size monotonicity): a resource group that gains a resource,
\* be it a VNet, a hub VNet or any other resource of a known or unknown type, is
\* computed no narrower and no lower than before.
C5_RGMonotone ==
    (sized # NoSized /\ sized.kind = "resourceGroup" /\ sized.grown > 0) => NotShrunk

\* a resource group gains a fifth other resource, which starts a second row: the
\* group gets higher and keeps the width of four
C5_Witness ==
    /\ sized # NoSized
    /\ sized.kind = "resourceGroup"
    /\ Len(SelectOthers(sized.node.resources)) = 5
    /\ Len(sized.node.resources) = 5
    /\ sized.size.width = sized.before.width
    /\ sized.size.height > sized.before.height

\* C6 (container size monotonicity): a subscription, a region, a VNet or hub VNet,
\* a subnet, an availability-zone group or an on-premises block that gains one
\* child is computed no narrower and no lower than before.
C6_ContainerMonotone ==
    (sized # NoSized /\ sized.kind # "resourceGroup" /\ sized.grown > 0) => NotShrunk

(***************************************************************************)
(* Properties of findCell, under SpecFind                                  *)
(***************************************************************************)

\* the registered entries a name matches exactly, ignoring case, and by one
\* lower-cased name containing the other
ExactMatches(m, name) == { i \in 1..Len(m) : m[i].key = name }

CaseMatches(m, name) == { i \in 1..Len(m) : toLowerCase(m[i].key) = toLowerCase(name) }

PartMatches(m, name) ==
    { i \in 1..Len(m) : \/ includes(toLowerCase(m[i].key), toLowerCase(name))
                        \/ includes(toLowerCase(name), toLowerCase(m[i].key)) }

\* what the three tiers allow findCell to return for a name
Resolves(m, name, found) ==
    IF ExactMatches(m, name) # {}
    THEN \E i \in ExactMatches(m, name) : found = m[i].val
    ELSE IF CaseMatches(m, name) # {}
    THEN \E i \in CaseMatches(m, name) : found = m[i].val
    ELSE IF PartMatches(m, name) # {}
    THEN \E i \in PartMatches(m, name) : found = m[i].val
    ELSE found = NoCell

\* C8 (connection resolution tiers): findCell returns the entry registered under
\* exactly the name when there is one; otherwise an entry whose name equals it
\* ignoring case; otherwise an entry one of whose lower-cased name and the
\* lower-cased endpoint name contains the other; otherwise nothing.
C8_ResolutionTiers ==
    lookup # NoLookup => Resolves(cellMap, lookup.name, lookup.result)

\* the name a is looked up in a registry that holds ab and, after it, A: the entry
\* of the later A is returned, not that of the earlier ab
C8_Witness ==
    /\ lookup # NoLookup
    /\ lookup.name = <<"a">>
    /\ Len(cellMap) = 2
    /\ cellMap[1].key = <<"a", "b">>
    /\ cellMap[2].key = <<"A">>
    /\ lookup.result = cellMap[2].val

(***************************************************************************)
(* Properties of a generated page, under SpecLayout                        *)
(***************************************************************************)

ContainerKinds ==
    { "subscription", "region", "resourceGroup", "vnet", "vnetHub", "subnet",
      "availabilityZone", "onPremises" }

\* the cell of a page that carries an identifier
CellWithId(cells, id) == cells[CHOOSE k \in 1..Len(cells) : cells[k].id = id]

HasCell(cells, id) == \E k \in 1..Len(cells) : cells[k].id = id

\* c lies inside its parent p: the two share the parent's absolute origin, so the
\* positions relative to it decide
InsideParent(c, p) ==
    /\ c.x >= 0
    /\ c.y >= 0
    /\ c.x + c.width <= p.width
    /\ c.y + c.height <= p.height

\* the nodes of a page: containers, icons and resources
IsNode(c) == c.kind \in ContainerKinds \cup {"icon", "resource"}

Contained(cells) ==
    \A k \in 1..Len(cells) :
        (IsNode(cells[k]) /\ HasCell(cells, cells[k].parent)
         /\ CellWithId(cells, cells[k].parent).kind \in ContainerKinds)
        => InsideParent(cells[k], CellWithId(cells, cells[k].parent))

\* C1 (containment): every emitted node whose parent is a container lies, with its
\* width and height, entirely inside its parent's rectangle; resources listed
\* directly under a region included.
C1_Containment == \A i \in 1..Len(doc.pages) : Contained(doc.pages[i].cells)

\* the floor of a container kind
FloorOf(kind) ==
    CASE kind = "region" -> [width |-> 400, height |-> 400]
      [] kind = "subscription" -> [width |-> 400, height |-> 200]
      [] kind = "resourceGroup" -> [width |-> 300, height |-> 200]
      [] kind \in {"vnet", "vnetHub"} -> [width |-> 300, height |-> 150]
      [] kind = "subnet" -> [width |-> 150, height |-> 100]
      [] kind = "availabilityZone" -> [width |-> 150, height |-> 110]
      [] OTHER -> [width |-> 350, height |-> 200]

\* C7 (size floors): every container is emitted with a width and a height of at
\* least its kind's floor, whether it is empty, holds availability zones or is a hub.
C7_SizeFloors ==
    \A i \in 1..Len(doc.pages) :
        \A c \in Range(doc.pages[i].cells) :
            c.kind \in ContainerKinds =>
                /\ c.width >= FloorOf(c.kind).width
                /\ c.height >= FloorOf(c.kind).height

\* a page shows an empty subscription at exactly its floor and, in another
\* subscription, a resource group above its floor
C7_Witness ==
    /\ Len(doc.pages) = 1
    /\ \E c \in Range(doc.pages[1].cells) :
          c.kind = "subscription" /\ c.width = 400 /\ c.height = 200
    /\ \E c \in Range(doc.pages[1].cells) :
          c.kind = "resourceGroup" /\ c.width > 300 /\ c.height > 200

\* a name matches no registered name on any tier
Unresolvable(m, name) == PartMatches(m, name) = {}

\* a sequence without its k-th element
Without(seq, k) == SubSeq(seq, 1, k - 1) \o SubSeq(seq, k + 1, Len(seq))

\* the connections of a page one of whose names matches nothing in the registry
\* of the page, which is the registry the page's layout leaves
Dropped(arch) ==
    { k \in 1..Len(arch.connections) :
        \/ Unresolvable(cellMap, arch.connections[k].from)
        \/ Unresolvable(cellMap, arch.connections[k].to) }

\* C9 (unresolvable connection): a page with a connection one of whose names
\* matches no registered name is emitted as the page without that connection is:
\* no edge, no identifier taken, no style in the legend, and the other connections
\* as they are without it.
C9_UnresolvableSkipped ==
    (phase = "generating" /\ pending = <<>>) =>
        \A k \in Dropped(request) :
            doc.pages[1].cells =
                generatePage(NewBuilder,
                             [request EXCEPT !.connections = Without(@, k)]).cells

\* of three connections the second names z, which is nowhere: the first and the
\* third are emitted, and the legend has no peering entry
C9_Witness ==
    /\ phase = "generating"
    /\ pending = <<>>
    /\ Len(request.connections) = 3
    /\ Dropped(request) = {2}
    /\ request.connections[2].style = "peering"
    /\ Len(SelectSeq(doc.pages[1].cells, LAMBDA c : c.kind = "edge")) = 2
    /\ "peering" \notin usedConnectionStyles
    /\ "vpn" \in usedConnectionStyles

RECURSIVE ParentChain(_, _)
\* the identifiers on the parent chain of a cell, up to the page root
ParentChain(cells, id) ==
    IF ~HasCell(cells, id) \/ CellWithId(cells, id).parent = <<>> THEN {}
    ELSE {CellWithId(cells, id).parent}
         \cup ParentChain(cells, CellWithId(cells, id).parent)

\* no edge of the page was routed around its source, its target or a container
\* on the parent chain of either
AncestorsSpared(cells) ==
    \A e \in Range(cells) :
        e.kind = "edge" =>
            Range(e.obstructing)
            \cap ({e.source, e.target} \cup ParentChain(cells, e.source)
                  \cup ParentChain(cells, e.target)) = {}

\* C10 (obstruction excludes ancestors): for every resolved connection, whether or
\* not node names are distinct, the obstructing containers include neither the
\* source, nor the target, nor a container on the parent chain of either.
C10_ObstructionExcludesAncestors ==
    \A i \in 1..Len(doc.pages) : AncestorsSpared(doc.pages[i].cells)

RECURSIVE AbsOrigin(_, _)
\* the absolute origin of a cell: its position, relative to its parent's origin
AbsOrigin(cells, c) ==
    IF c.parent = <<>> \/ ~HasCell(cells, c.parent) THEN [x |-> c.x, y |-> c.y]
    ELSE LET o == AbsOrigin(cells, CellWithId(cells, c.parent))
         IN  [x |-> o.x + c.x, y |-> o.y + c.y]

AbsRight(cells, c) == AbsOrigin(cells, c).x + c.width

\* twice the absolute centre of a container cell
AbsCenterX2(cells, c) == 2 * AbsOrigin(cells, c).x + c.width

AbsCenterY2(cells, c) == 2 * AbsOrigin(cells, c).y + c.height

\* container m sits in the stack between containers a and c of its parent
StackedBetween(a, m, c) ==
    /\ m.kind \in ContainerKinds
    /\ m.parent = a.parent
    /\ \/ a.y + a.height <= m.y /\ m.y + m.height <= c.y
       \/ c.y + c.height <= m.y /\ m.y + m.height <= a.y

\* container m reaches into the band of the edge from a to c: the span of the two
\* centres' X, widened by 50 on either side
InBand(cells, a, m, c) ==
    /\ 2 * AbsRight(cells, m) >= Min(AbsCenterX2(cells, a), AbsCenterX2(cells, c)) - 100
    /\ 2 * AbsOrigin(cells, m).x <= Max(AbsCenterX2(cells, a), AbsCenterX2(cells, c)) + 100

\* the edge e from a to c was routed: two waypoints at one X, which is 40 past the
\* rightmost of a, c and every obstruction and past m, at the Y-centres of a and c
RoutedAround(cells, e, a, m, c) ==
    /\ Len(e.points) = 2
    /\ e.points[1].x = e.points[2].x
    /\ \A r \in {AbsRight(cells, a), AbsRight(cells, c)}
               \cup { AbsRight(cells, CellWithId(cells, id)) : id \in Range(e.obstructing) } :
          e.points[1].x >= r + 40
    /\ \E r \in {AbsRight(cells, a), AbsRight(cells, c)}
               \cup { AbsRight(cells, CellWithId(cells, id)) : id \in Range(e.obstructing) } :
          e.points[1].x = r + 40
    /\ e.points[1].x > AbsRight(cells, m)
    /\ e.points[1].y2 = AbsCenterY2(cells, a)
    /\ e.points[2].y2 = AbsCenterY2(cells, c)

\* the edges between two stacked containers of a page, each with a container
\* between the two: [e, a, m, c]
AcrossStack(cells) ==
    { q \in { [e |-> e, a |-> CellWithId(cells, e.source), m |-> m,
               c |-> CellWithId(cells, e.target)] :
              e \in { x \in Range(cells) : x.kind = "edge" }, m \in Range(cells) } :
        /\ q.a.kind \in ContainerKinds
        /\ q.c.kind \in ContainerKinds
        /\ StackedBetween(q.a, q.m, q.c) }

\* an edge that was not routed has no waypoints
PlainEdgesStraight(cells) ==
    \A e \in Range(cells) : (e.kind = "edge" /\ e.obstructing = <<>>) => e.points = <<>>

\* C11 (obstruction routing), as stated: the edge between two stacked containers
\* with a container stacked between them has exactly two waypoints, at one X that
\* is 40 past the rightmost of source, target and obstructions and past all three
\* containers, and at the Y-centres of source and target; an edge with no
\* obstruction has none.
C11_RoutedAroundStacked ==
    \A i \in 1..Len(doc.pages) :
        /\ \A q \in AcrossStack(doc.pages[i].cells) :
              RoutedAround(doc.pages[i].cells, q.e, q.a, q.m, q.c)
        /\ PlainEdgesStraight(doc.pages[i].cells)

\* C11 (obstruction routing), amended: the same for a container between the two
\* that reaches into the band of the edge.
C11_RoutedAroundInBand ==
    \A i \in 1..Len(doc.pages) :
        /\ \A q \in AcrossStack(doc.pages[i].cells) :
              InBand(doc.pages[i].cells, q.a, q.m, q.c)
              => RoutedAround(doc.pages[i].cells, q.e, q.a, q.m, q.c)
        /\ PlainEdgesStraight(doc.pages[i].cells)

\* an edge between the first and the third resource group of a region was routed
\* around the second, which is wider than both
C11_Witness ==
    /\ Len(doc.pages) = 1
    /\ \E q \in AcrossStack(doc.pages[1].cells) :
          /\ q.a.kind = "resourceGroup"
          /\ InBand(doc.pages[1].cells, q.a, q.m, q.c)
          /\ q.m.width > q.a.width
          /\ q.m.width > q.c.width
          /\ q.e.routed
          /\ Len(q.e.points) = 2

RECURSIVE Flat(_)
\* the concatenation of a sequence of sequences
Flat(seqs) == IF seqs = <<>> THEN <<>> ELSE Head(seqs) \o Flat(Tail(seqs))

\* the resources (VNets apart) of the input under each kind of node, and the
\* containers the input asks for there
SubnetLeaves(n) ==
    Flat([z \in 1..Len(n.availabilityZones) |-> n.availabilityZones[z].resources])
    \o n.resources

SubnetBoxes(n) == 1 + Len(n.availabilityZones)

VNetLeaves(v) ==
    IF v.hasSubnets THEN Flat([k \in 1..Len(v.subnets) |-> SubnetLeaves(v.subnets[k])])
    ELSE <<>>

VNetBoxes(v) ==
    1 + (IF v.hasSubnets THEN SeqSum([k \in 1..Len(v.subnets) |-> SubnetBoxes(v.subnets[k])])
         ELSE 0)

RGLeaves(g) ==
    Flat([k \in 1..Len(g.resources) |->
            IF isVNet(g.resources[k]) THEN VNetLeaves(g.resources[k])
            ELSE <<g.resources[k]>>])

RGBoxes(g) ==
    1 + SeqSum([k \in 1..Len(g.resources) |->
                  IF isVNet(g.resources[k]) THEN VNetBoxes(g.resources[k]) ELSE 0])

RegionLeaves(e) ==
    Flat([k \in 1..Len(e.resourceGroups) |-> RGLeaves(e.resourceGroups[k])])
    \o e.resources

RegionBoxes(e) ==
    1 + SeqSum([k \in 1..Len(e.resourceGroups) |-> RGBoxes(e.resourceGroups[k])])

SubscriptionLeaves(s) ==
    IF Len(s.regions) > 0
    THEN Flat([k \in 1..Len(s.regions) |-> RegionLeaves(s.regions[k])])
    ELSE Flat([k \in 1..Len(s.resourceGroups) |-> RGLeaves(s.resourceGroups[k])])

SubscriptionBoxes(s) ==
    1 + (IF Len(s.regions) > 0
         THEN SeqSum([k \in 1..Len(s.regions) |-> RegionBoxes(s.regions[k])])
         ELSE SeqSum([k \in 1..Len(s.resourceGroups) |-> RGBoxes(s.resourceGroups[k])]))

\* the resources of a page's input, wherever they sit
Leaves(arch) ==
    (IF Len(arch.regions) > 0
     THEN Flat([k \in 1..Len(arch.regions) |-> RegionLeaves(arch.regions[k])])
     ELSE IF arch.subscription # <<>> THEN SubscriptionLeaves(arch.subscription[1])
     ELSE Flat([k \in 1..Len(arch.subscriptions) |->
                  SubscriptionLeaves(arch.subscriptions[k])]))
    \o Flat([k \in 1..Len(arch.onPremises) |-> arch.onPremises[k].resources])
    \o arch.globalResources

\* the number of containers a page's input asks for
Boxes(arch) ==
    (IF Len(arch.regions) > 0
     THEN SeqSum([k \in 1..Len(arch.regions) |-> RegionBoxes(arch.regions[k])])
     ELSE IF arch.subscription # <<>> THEN SubscriptionBoxes(arch.subscription[1])
     ELSE SeqSum([k \in 1..Len(arch.subscriptions) |->
                    SubscriptionBoxes(arch.subscriptions[k])]))
    + Len(arch.onPremises)

OfKind(cells, kinds) == SelectSeq(cells, LAMBDA c : c.kind \in kinds)

\* the leaf r of the input left no trace on the page
NoTrace(cells, r) ==
    /\ \A c \in Range(cells) : c.kind = "resource" => c.value # r.name
    /\ \A c \in Range(cells) : c.type # r.type
    /\ ~MapHas(cellMap, r.name)
    /\ r.type \notin usedResourceTypes

\* everything else of the input is on the page: the containers, the resources of
\* a catalog type, and an edge for each connection whose two names resolve
RestEmitted(cells, arch) ==
    /\ Len(OfKind(cells, ContainerKinds)) = Boxes(arch)
    /\ Len(OfKind(cells, {"resource"}))
         = Len(SelectSeq(Leaves(arch), LAMBDA r : KnownType(r.type)))
    /\ \A r \in Range(Leaves(arch)) :
          KnownType(r.type)
          => /\ \E c \in Range(cells) :
                   c.kind = "resource" /\ c.value = r.name /\ c.type = r.type
             /\ MapHas(cellMap, r.name)
    /\ Len(OfKind(cells, {"edge"})) = Len(arch.connections) - Cardinality(Dropped(arch))
    /\ \A k \in 1..Len(arch.connections) :
          k \notin Dropped(arch)
          => \E c \in Range(cells) :
                /\ c.kind = "edge"
                /\ c.source = findCell(cellMap, arch.connections[k].from).id
                /\ c.target = findCell(cellMap, arch.connections[k].to).id

\* C12 (graceful degradation): a resource whose type is not in the catalog emits
\* no cell, gets no registry entry and adds no type to the legend, wherever it
\* sits; the page still has every container, every other resource and an edge for
\* every connection that resolves.
C12_UnknownTypeSkipped ==
    (phase = "generating" /\ pending = <<>>) =>
        /\ \A r \in Range(Leaves(request)) :
              ~KnownType(r.type) => NoTrace(doc.pages[1].cells, r)
        /\ RestEmitted(doc.pages[1].cells, request)

\* the resources of the subnet and of its availability zone are of no catalog
\* type, the other three are placed, and the one connection between placed
\* resources is an edge
C12_Witness ==
    /\ phase = "generating"
    /\ pending = <<>>
    /\ request \in MixedArchs
    /\ { r.name : r \in { q \in Range(Leaves(request)) : ~KnownType(q.type) } }
         = { <<"k", "b">>, <<"k", "c">> }
    /\ Len(OfKind(doc.pages[1].cells, {"resource"})) = 3
    /\ Len(OfKind(doc.pages[1].cells, {"edge"})) = 1
    /\ usedResourceTypes = {"vm"}

\* the types the legend of a page lists, in the order of its labels
LegendTypes(cells) ==
    [k \in 1..Len(OfKind(cells, {"legendLabel"})) |-> OfKind(cells, {"legendLabel"})[k].type]

\* the types of the resources placed on a page
PlacedTypes(cells) == { c.type : c \in { d \in Range(cells) : d.kind = "resource" } }

\* a sequence of catalog types in strictly ascending order of display name
AscendingByName(types) ==
    \A j \in 1..Len(types), k \in 1..Len(types) :
        j < k => RESOURCES[types[j]].rank < RESOURCES[types[k]].rank

LegendStyles(cells) ==
    [k \in 1..Len(OfKind(cells, {"legendStyleLabel"})) |->
        OfKind(cells, {"legendStyleLabel"})[k].style]

\* the styles, among the four the legend knows, that the edges of a page carry
EdgeStyles(cells) ==
    { c.style : c \in { d \in Range(cells) : d.kind = "edge" } } \cap ConnectionStyles

\* the legend of a page has a connection styles section exactly when an edge
\* carries one of the four styles, and the section has one sample edge and one
\* label for each style so used
StylesListed(cells) ==
    /\ Len(OfKind(cells, {"legendHeader"})) = (IF EdgeStyles(cells) # {} THEN 1 ELSE 0)
    /\ Range(LegendStyles(cells)) = EdgeStyles(cells)
    /\ Len(LegendStyles(cells)) = Cardinality(EdgeStyles(cells))
    /\ LegendStyles(cells)
         = [k \in 1..Len(OfKind(cells, {"legendEdge"})) |->
              OfKind(cells, {"legendEdge"})[k].style]

\* C14 (legend connection styles): on every page the legend has a connection
\* styles section if and only if an emitted connection carries a style among
\* dashed, expressroute, vpn and peering, and the section lists exactly the styles
\* so used, each once, whatever resources the page holds.
C14_LegendStyles ==
    phase # "hung" => \A i \in 1..Len(doc.pages) : StylesListed(doc.pages[i].cells)

\* an identifier names a cell among the first k - 1 cells
DeclaredBefore(cells, k, id) == \E j \in 1..(k - 1) : cells[j].id = id

\* the cells of a page are declared before they are used
DeclaredInOrder(cells) ==
    /\ Len(cells) >= 2
    /\ cells[1].id = <<"0">>
    /\ cells[2].id = PageRoot
    /\ \A k \in 2..Len(cells) : DeclaredBefore(cells, k, cells[k].parent)
    /\ \A k \in 1..Len(cells) :
          cells[k].kind = "edge"
          => /\ DeclaredBefore(cells, k, cells[k].source)
             /\ DeclaredBefore(cells, k, cells[k].target)

C16_RoutingReturns == phase # "hung"

(***************************************************************************)
(* Properties of the prompt history, under SpecHistory                     *)
(***************************************************************************)

\* the entries of a history are in the order of their saving, the last saved first
NewestFirst(history) ==
    \A j \in 1..Len(history), k \in 1..Len(history) :
        j < k => history[j].id > history[k].id

\* a step of saveToHistory that wrote the item (the call returned) leaves the
\* entry just saved first, before entries that were stored, in their order and
\* without a gap from the newest on
SavedFirst ==
    (saves' = saves + 1 /\ storage' # storage)
    => /\ Parsed(storage') # <<>>
       /\ Head(Parsed(storage')) = HistoryEntry(NewId)
       /\ Tail(Parsed(storage')) = SubSeq(getHistory, 1, Len(Parsed(storage')) - 1)

\* C17 (history bound): after any sequence of saveToHistory, deleteEntry and
\* clearHistory the stored history has at most 50 entries, newest first; a save
\* removes only the oldest entries and stores the entry just saved first.
C17_HistoryBound ==
    /\ [](Len(getHistory) <= MAX_ENTRIES /\ NewestFirst(getHistory))
    /\ [][SavedFirst]_vars

(***************************************************************************)
(* Properties of the diagram viewer, under SpecViewer                      *)
(***************************************************************************)

\* the iframe on display has loaded the XML of the current result, and so has
\* posted load for it
LoadedCurrent == frame.mounted /\ frame.xml = result

\* a step posts an export message to the iframe
ExportPosted ==
    \E format \in {"png", "svg"} : toFrame' = Append(toFrame, ExportAction(format))

\* C18 (export gating): while the iframe on display has not reported load for
\* the current XML, the PNG and SVG export buttons are disabled and no export
\* message is posted, under every interleaving of results, iframe messages, the
\* XML/Diagram toggle and Retry.
C18_ExportGated ==
    /\ []((frame.mounted /\ ~LoadedCurrent)
             => (~ExportEnabled("png") /\ ~ExportEnabled("svg")))
    /\ [][ExportPosted => LoadedCurrent]_vars

(***************************************************************************)
(* Properties of the title block and the legend's place, under SpecLayout  *)
(***************************************************************************)

\* the cloud containers of a page: the regions or subscriptions on the page root
CloudTops(cells) ==
    { c \in Range(cells) : c.kind \in {"region", "subscription"} /\ c.parent = PageRoot }

\* the page's title block has the height h, and the cloud content starts h + 10
\* below the top offset of 50
TitledAt(cells, h) ==
    /\ Len(OfKind(cells, {"title"})) = 1
    /\ OfKind(cells, {"title"})[1].height = h
    /\ \A c \in CloudTops(cells) : c.y = 50 + h + 10

\* C19 (title height), as stated: for every page with a title and a description
\* of length L (0 when there is none) the title block's height is
\* max(60, 30 + ceil(L / 100) * 18), and the content starts that height + 10
\* below the default top offset.
C19_TitleHeight ==
    \A i \in 1..Len(doc.pages) :
        doc.pages[i].arch.title # <<>>
        => TitledAt(doc.pages[i].cells,
                    Max(60, 30 + ((doc.pages[i].arch.description + 99) \div 100) * 18))

\* C19 (title height), amended: the height is 30 when there is no description,
\* and max(60, 30 + ceil(L / 100) * 18) when there is one.
C19_TitleHeightByDescription ==
    \A i \in 1..Len(doc.pages) :
        doc.pages[i].arch.title # <<>>
        => TitledAt(doc.pages[i].cells,
                    IF doc.pages[i].arch.description = 0 THEN 30
                    ELSE Max(60, 30 + ((doc.pages[i].arch.description + 99) \div 100) * 18))

\* a page with a title, a description of two lines and a subscription: the title
\* is 66 high and the subscription starts at 126
C19_Witness ==
    /\ Len(doc.pages) = 1
    /\ doc.pages[1].arch.title # <<>>
    /\ doc.pages[1].arch.description = 101
    /\ OfKind(doc.pages[1].cells, {"title"})[1].height = 66
    /\ \E c \in CloudTops(doc.pages[1].cells) : c.kind = "subscription" /\ c.y = 126

\* the pages that have a legend
WithLegend == { i \in 1..Len(doc.pages) : Len(OfKind(doc.pages[i].cells, {"legend"})) = 1 }

LegendOf(i) == OfKind(doc.pages[i].cells, {"legend"})[1]

GlobalPlaces(cells) ==
    { k \in 1..Len(cells) : cells[k].kind = "resource" /\ cells[k].parent = PageRoot }

PagePlaces(cells) ==
    { k \in 1..Len(cells) : /\ cells[k].kind \in {"subscription", "region", "onPremises"}
                            /\ cells[k].parent = PageRoot }

\* the places, in registry order, of the entries of the same nodes
EntryPlaces(m, cells, places) ==
    { j \in 1..Len(m) : \E k \in places : m[j].val.id = cells[k].id }

\* C21 (global resources first), as stated: on every page all global resources
\* are emitted and entered in the registry before any subscription, region or
\* on-premises container of the page.
C21_GlobalsFirst ==
    (phase = "generating" /\ pending = <<>>) =>
        /\ \A g \in GlobalPlaces(doc.pages[1].cells), c \in PagePlaces(doc.pages[1].cells) :
              g < c
        /\ \A g \in EntryPlaces(cellMap, doc.pages[1].cells, GlobalPlaces(doc.pages[1].cells)),
              c \in EntryPlaces(cellMap, doc.pages[1].cells, PagePlaces(doc.pages[1].cells)) :
              g < c

\* C21 (global resources), amended: on every page all global resources are
\* emitted and entered in the registry after every subscription, region and
\* on-premises container of the page, and before every edge.
C21_GlobalsLast ==
    (phase = "generating" /\ pending = <<>>) =>
        /\ \A g \in GlobalPlaces(doc.pages[1].cells), c \in PagePlaces(doc.pages[1].cells) :
              c < g
        /\ \A g \in EntryPlaces(cellMap, doc.pages[1].cells, GlobalPlaces(doc.pages[1].cells)),
              c \in EntryPlaces(cellMap, doc.pages[1].cells, PagePlaces(doc.pages[1].cells)) :
              c < g
        /\ \A g \in GlobalPlaces(doc.pages[1].cells), k \in 1..Len(doc.pages[1].cells) :
              doc.pages[1].cells[k].kind = "edge" => g < k

\* a page with a subscription, an on-premises block, two global resources and an
\* edge to one of them
C21_Witness ==
    /\ phase = "generating"
    /\ pending = <<>>
    /\ Cardinality(GlobalPlaces(doc.pages[1].cells)) >= 1
    /\ Cardinality(PagePlaces(doc.pages[1].cells)) = 2
    /\ Cardinality(EntryPlaces(cellMap, doc.pages[1].cells,
                               GlobalPlaces(doc.pages[1].cells))) >= 1
    /\ \E k \in 1..Len(doc.pages[1].cells), g \in GlobalPlaces(doc.pages[1].cells) :
          /\ doc.pages[1].cells[k].kind = "edge"
          /\ doc.pages[1].cells[k].target = doc.pages[1].cells[g].id

RECURSIVE TopOf(_, _)
\* the page-level node a cell is nested in (the cell itself at page level)
TopOf(cells, c) ==
    IF c.parent = PageRoot \/ ~HasCell(cells, c.parent) THEN c
    ELSE TopOf(cells, CellWithId(cells, c.parent))

\* the cloud nodes of a page: the subscriptions and regions at page level and
\* every node nested in them
CloudNodes(cells) ==
    { k \in 1..Len(cells) : /\ IsNode(cells[k])
                            /\ TopOf(cells, cells[k]).kind \in {"subscription", "region"} }

PremisesBlocks(cells) ==
    { k \in 1..Len(cells) : cells[k].kind = "onPremises" /\ cells[k].parent = PageRoot }

\* C22 (on-premises below cloud): on every page the top edge of each on-premises
\* block lies strictly below the bottom edge of every cloud node of the page, the
\* subscriptions, the regions and everything nested in them.
C22_PremisesBelowCloud ==
    \A i \in 1..Len(doc.pages) :
        \A o \in PremisesBlocks(doc.pages[i].cells), n \in CloudNodes(doc.pages[i].cells) :
            AbsOrigin(doc.pages[i].cells, doc.pages[i].cells[n]).y
                + doc.pages[i].cells[n].height
              < doc.pages[i].cells[o].y

\* the left edge of the leftmost and the right edge of the rightmost of the cells
\* at the places ks of a page
LeftEdge(cells, ks) == cells[CHOOSE k \in ks : \A j \in ks : cells[k].x <= cells[j].x].x

RightEdge(cells, ks) ==
    LET k == CHOOSE p \in ks : \A j \in ks : cells[p].x + cells[p].width
                                              >= cells[j].x + cells[j].width
    IN  cells[k].x + cells[k].width

CloudPlaces(cells) ==
    { k \in 1..Len(cells) : /\ cells[k].kind \in {"subscription", "region"}
                            /\ cells[k].parent = PageRoot }

Distance(a, b) == IF a >= b THEN a - b ELSE b - a

\* C23 (on-premises centring): on every page with cloud containers and
\* on-premises blocks, the horizontal midpoint of the row of blocks, from the left
\* edge of the first to the right edge of the last, equals up to 1 unit the
\* midpoint of the cloud content, from the left edge of the first cloud container
\* to the right edge of the last.  Midpoints are compared doubled.
C23_PremisesCentred ==
    \A i \in 1..Len(doc.pages) :
        (PremisesBlocks(doc.pages[i].cells) # {} /\ CloudPlaces(doc.pages[i].cells) # {})
        => Distance(LeftEdge(doc.pages[i].cells, PremisesBlocks(doc.pages[i].cells))
                      + RightEdge(doc.pages[i].cells, PremisesBlocks(doc.pages[i].cells)),
                    LeftEdge(doc.pages[i].cells, CloudPlaces(doc.pages[i].cells))
                      + RightEdge(doc.pages[i].cells, CloudPlaces(doc.pages[i].cells)))
             <= 2

\* two rectangles with a common origin share interior points
Overlap(a, c) ==
    /\ a.x < c.x + c.width
    /\ c.x < a.x + a.width
    /\ a.y < c.y + c.height
    /\ c.y < a.y + a.height

\* no two distinct children of one container overlap
SiblingsApart(cells) ==
    \A j, k \in 1..Len(cells) :
        (/\ j < k
         /\ IsNode(cells[j])
         /\ IsNode(cells[k])
         /\ cells[j].parent = cells[k].parent
         /\ HasCell(cells, cells[j].parent)
         /\ CellWithId(cells, cells[j].parent).kind \in ContainerKinds)
        => ~Overlap(cells[j], cells[k])

\* C24 (no sibling overlap): for every container and every two distinct children
\* of it, child containers, icons and resource cells, the two children's
\* rectangles do not overlap.
C24_NoSiblingOverlap == \A i \in 1..Len(doc.pages) : SiblingsApart(doc.pages[i].cells)

\* the placed nodes of a page: its containers and its resources
Placed(cells) == OfKind(cells, ContainerKinds \cup {"resource"})

\* the registry answers the exact name of the placed node c with c's identifier,
\* parent and relative position
EnteredAs(m, c) ==
    /\ MapHas(m, c.value)
    /\ MapGet(m, c.value).id = c.id
    /\ MapGet(m, c.value).parentId = c.parent
    /\ MapGet(m, c.value).position.x = c.x
    /\ MapGet(m, c.value).position.y = c.y

\* C25 (one registry entry per placement): after a page's layout every placed
\* node, container or resource, has its own registry entry: the registry has as
\* many entries as the page has placed nodes, and the exact name of a placed node
\* (an availability-zone group has a key, not a name) finds that node's
\* identifier, parent identifier and relative position.
C25_EntryPerPlacement ==
    (phase = "generating" /\ pending = <<>>) =>
        /\ Len(cellMap) = Len(Placed(doc.pages[1].cells))
        /\ \A c \in Range(Placed(doc.pages[1].cells)) :
              c.kind # "availabilityZone" => EnteredAs(cellMap, c)

\* the page-level nodes: the title block, the global resources, the cloud
\* containers, the on-premises blocks and the legend
PageLevel(cells) ==
    SelectSeq(cells, LAMBDA c :
        /\ c.parent = PageRoot
        /\ c.kind \in {"title", "resource", "subscription", "region", "onPremises", "legend"})

\* C26 (page-level nodes do not overlap): on every page the rectangles of the
\* title block, the global resources, the cloud containers, the on-premises
\* blocks and the legend are pairwise disjoint.
C26_PageLevelApart ==
    \A i \in 1..Len(doc.pages) :
        \A j, k \in 1..Len(PageLevel(doc.pages[i].cells)) :
            j < k => ~Overlap(PageLevel(doc.pages[i].cells)[j], PageLevel(doc.pages[i].cells)[k])

\* the resource r of the input is emitted under the identifier the registry
\* holds for its name, with its name and caption as the label
EmittedAsEntered(cells, m, r) ==
    \E c \in Range(cells) :
        /\ c.kind = "resource"
        /\ c.id = MapGet(m, r.name).id
        /\ c.value = r.name \o propLabel(r)

\* every edge joins two emitted cells
EdgesJoinCells(cells) ==
    \A e \in Range(cells) :
        e.kind = "edge" => HasCell(cells, e.source) /\ HasCell(cells, e.target)

\* C27 (custom properties cannot change identity): for every resource and every
\* property mapping, whatever its keys, the identifier under which the resource is
\* emitted is the one recorded in the registry and used as source or target by
\* edges, and the emitted label is the resource's name plus caption.
C27_PropertiesKeepIdentity ==
    (phase = "generating" /\ pending = <<>>) =>
        /\ \A r \in Range(Leaves(doc.pages[1].arch)) :
              EmittedAsEntered(doc.pages[1].cells, cellMap, r)
        /\ EdgesJoinCells(doc.pages[1].cells)

(***************************************************************************)
(* Properties of the generate panel, under SpecPanel, and of the           *)
(* configuration panel, under SpecConfig                                   *)
(***************************************************************************)

\* a step starts a request: handleGenerate passes its guard
Started == Len(attempts') = Len(attempts) + 1

\* C28 (single generation in flight): while isGenerating is true no user action,
\* the button or Ctrl/Cmd+Enter in the prompt, starts a second request, so at most
\* one request and one abort controller are live at any time.
C28_SingleInFlight ==
    /\ [][Started => ~isGenerating]_vars
    /\ [](Cardinality(Live) <= 1)

\* the attempt k has ended with exactly one outcome: one onGenerated and no
\* onError, or one onError with a message and no onGenerated
OneOutcome(k) ==
    /\ attempts[k].generated + Len(attempts[k].errors) = 1
    /\ \A j \in 1..Len(attempts[k].errors) : attempts[k].errors[j] # ""

\* a step ends the attempt k
Ends(k) == k \in Live /\ attempts'[k].pc = "ended"

\* C29 (one outcome per generation): every attempt ends with exactly one of
\* onGenerated or onError with a non-empty message, and isGenerating is false
\* when it has ended, for JSON responses and for every event stream.
C29_OneOutcome ==
    /\ [](\A k \in 1..Len(attempts) : attempts[k].pc = "ended" => OneOutcome(k))
    /\ [][\A k \in 1..MaxAttempts : Ends(k) => ~isGenerating']_vars

\* C30 (no stale discovery results): after any selections and responses the
\* resource list shown is empty or the one returned for the selected
\* subscription, and the deployment list shown is empty or the one returned for
\* the selected resource.
C30_NoStaleResults ==
    /\ resourceList = <<>>
       \/ (selectedSub # "" /\ resourceList = ResourcesOf(selectedSub))
    /\ deployments = <<>>
       \/ (selectedResource # "" /\ deployments = DeploymentsOf(selectedResource))

====
